---- MODULE Spec2Model ----
(***************************************************************************)
(* State-machine model of the simulation core of the arcade game in        *)
(* src/main.py: one frame of run_game_loop (dash/finisher input, finisher  *)
(* state machine, ship timers, object updates, collision resolution, level *)
(* change), game over and reset_game.                                      *)
(*                                                                         *)
(* Numbers.  The program computes with floats; the model uses fixed point: *)
(*   - timers and time_scale are in units of 1/FP frame (time_scale takes  *)
(*     the values 1.0, 0.5 and 0.1 only);                                  *)
(*   - positions, radii and velocities are in units of 1/PX pixel, which   *)
(*     makes every velocity * time_scale product integral;                 *)
(*   - the finisher meter is in units of 1/MeterFP point, which makes the  *)
(*     passive decay 2/fps * time_scale integral.                          *)
(* Geometry.  Entities live on the horizontal line through the screen      *)
(* centre (y = screen_height // 2 for all of them), so angles are 0 or 180 *)
(* and dy = 0 in every distance.  Thrust, turning, friction and the enemy  *)
(* steering are not integrated: the ship moves only by reset_ship, and     *)
(* asteroids and enemies stay where they are; bullets fly as in the code.  *)
(***************************************************************************)
EXTENDS Integers, Sequences, FiniteSets, TLC

VARIABLES
    ship,           \* g_ship (ShipState)
    gs,             \* g_game_state
    enemies,        \* g_enemies
    asteroids,      \* g_asteroids
    bullets,        \* g_bullets
    enemy_bullets,  \* g_enemy_bullets
    prev_dash,      \* prev_keys_dash / prev_controller_dash of run_game_loop
    log,            \* observations of the last frame (history, not program state)
    save_file,      \* the content of Cfg.save_file
    particle_pool,  \* g_particle_pool (ParticlePool)
    entity          \* an entity with floating-point x and vx

vars == <<ship, gs, enemies, asteroids, bullets, enemy_bullets, prev_dash, log, save_file,
          particle_pool, entity>>

-----------------------------------------------------------------------------
(* JSON values of the save file.  A scalar carries its Python type after       *)
(* json.load: "int", "float" (finite, n in tenths), "nan" (NaN or an infinity, *)
(* which json.load accepts), "bool", "str", or "missing" for an absent key.    *)
J(t, n) == [t |-> t, n |-> n]

\* a list or a dict of the file, or a value of another type in its place
JItems(t, items) == [t |-> t, items |-> items]

\* os.path.exists(Cfg.save_file) is false
NoFile ==
    [kind |-> "none", high_score |-> J("missing", 0), lifetime_crystals |-> J("missing", 0),
     achievements_unlocked |-> JItems("missing", <<>>),
     upgrade_levels |-> JItems("missing", <<>>), boss_kills |-> J("missing", 0)]

-----------------------------------------------------------------------------
(* The particle pool (particle_system.py).  Slots are numbered from 0; a       *)
(* particle is its slot.                                                       *)

\* the size of the pool
PoolSize == 4

\* ParticlePool.__init__
ParticlePool0 ==
    [pool |-> [i \in 0..(PoolSize - 1) |-> [active |-> FALSE, life |-> 0]],
     active_indices |-> <<>>,
     inactive_indices |-> [k \in 1..PoolSize |-> k - 1]]

-----------------------------------------------------------------------------
(* Fixed-point units *)
FP == 10
PX == 25
MeterFP == 300

(* Cfg (src/config.py); floats are given in the unit named in the comment *)
screen_width == 800
fps == 60
ship_max_speed_x10 == 64                \* 6.4 px/frame, in tenths
ship_radius == 10
ship_nose_length == 15
ship_max_lives == 5
ship_invulnerability_time == 120
ship_respawn_duration == 90
bullet_radius == 2
bullet_speed == 12
bullet_lifetime == 50
enemy_bullet_speed_mult_x10 == 8        \* 0.8, in tenths
asteroid_collision_margin == 12
asteroid_split_count == 2
asteroid_min_size == 1
asteroid_max_size == 3
boss_health == 50
boss_spawn_interval == 5
boss_size_multiplier == 3
enemy_fire_rate == 90
enemy_max_count == 2
enemy_radius == 12
enemy_health == 3
enemy_min_fire_distance == 50
enemy_max_fire_distance == 250
enemy_min_spawn_distance == 200
enemy_max_spawn_attempts == 10
dash_cooldown == 120
dash_duration == 15
dash_speed_multiplier == 3
finisher_lock_on_time == 30
finisher_pre_impact_time == 6
finisher_impact_time == 60
finisher_post_impact_time == 30
finisher_lock_on_scale == 5             \* 0.5, in 1/FP
finisher_time_scale == 1                \* 0.1, in 1/FP
finisher_shockwave_radius == 200
finisher_damage_close == 3
finisher_damage_far == 2
finisher_invuln_buffer_x10 == 5         \* 0.5 s, in tenths
combo_timeout == 180
combo_medium_threshold == 5
combo_high_threshold == 10
level_transition_duration == 120

combo_fill_rates == [base |-> 10, medium |-> 15, high |-> 20]

FinisherPhase == {"idle", "lock_on", "pre_impact", "impact", "post_impact"}
None == 0           \* no target (enemy ids are 1, 2, ...)

Max(a, b) == IF a >= b THEN a ELSE b
Min(a, b) == IF a <= b THEN a ELSE b

(* the world a frame's functions read and write *)
World ==
    [ship |-> ship, gs |-> gs, enemies |-> enemies, asteroids |-> asteroids,
     bullets |-> bullets, enemy_bullets |-> enemy_bullets, log |-> log]

-----------------------------------------------------------------------------
(* Helper functions *)

\* update_timer(value, decrement): value and the result in 1/FP frame
update_timer(w, value, decrement) ==
    IF value > 0 THEN Max(0, value - decrement * w.gs.time_scale) ELSE 0

\* distance_squared with both objects on the line y = const
distance_squared(x1, x2) == (x1 - x2) * (x1 - x2)

check_collision(x1, x2, r1, r2) == distance_squared(x1, x2) < (r1 + r2) * (r1 + r2)

\* get_sin_cos for the two angles of the line: cos 0 = 1, cos 180 = -1, sin = 0
cos_of(angle) == IF angle = 0 THEN 1 ELSE -1

\* math.degrees(math.atan2(0, dx)): 0 for dx >= 0, 180 for dx < 0
angle_to(dx) == IF dx >= 0 THEN 0 ELSE 180

asteroid_radius(a) ==
    IF a.is_boss THEN a.size * 10 * PX * boss_size_multiplier ELSE a.size * 10 * PX

-----------------------------------------------------------------------------
(* Combo *)

\* mutation of add_combo: the meter is filled without min(100.0, ...)
add_combo_unclamped(w) ==
    LET c  == w.gs.combo
        f  == w.gs.finisher
        cur == c.current + 1
        fill_rate == IF cur >= combo_high_threshold THEN combo_fill_rates.high
                     ELSE IF cur >= combo_medium_threshold THEN combo_fill_rates.medium
                     ELSE combo_fill_rates.base
        meter == f.meter + fill_rate * MeterFP
        f2 == IF ~f.ready
              THEN [f EXCEPT !.meter = meter,
                             !.ready = IF meter >= 100 * MeterFP THEN TRUE ELSE f.ready]
              ELSE f
    IN [w EXCEPT !.gs.combo = [c EXCEPT !.current = cur, !.timer = combo_timeout * FP],
                 !.gs.finisher = f2]

\* mutation of add_combo: the combo timer is topped up only when it has run out
add_combo_keeps_timer(w) ==
    LET c  == w.gs.combo
        f  == w.gs.finisher
        cur == c.current + 1
        fill_rate == IF cur >= combo_high_threshold THEN combo_fill_rates.high
                     ELSE IF cur >= combo_medium_threshold THEN combo_fill_rates.medium
                     ELSE combo_fill_rates.base
        meter == Min(100 * MeterFP, f.meter + fill_rate * MeterFP)
        f2 == IF ~f.ready
              THEN [f EXCEPT !.meter = meter,
                             !.ready = IF meter >= 100 * MeterFP THEN TRUE ELSE f.ready]
              ELSE f
    IN [w EXCEPT !.gs.combo = [c EXCEPT !.current = cur,
                                        !.timer = IF @ > 0 THEN @ ELSE combo_timeout * FP],
                 !.gs.finisher = f2]

add_combo(w) ==
    LET c  == w.gs.combo
        f  == w.gs.finisher
        cur == c.current + 1
        fill_rate == IF cur >= combo_high_threshold THEN combo_fill_rates.high
                     ELSE IF cur >= combo_medium_threshold THEN combo_fill_rates.medium
                     ELSE combo_fill_rates.base
        meter == Min(100 * MeterFP, f.meter + fill_rate * MeterFP)
        f2 == IF ~f.ready
              THEN [f EXCEPT !.meter = meter,
                             !.ready = IF meter >= 100 * MeterFP THEN TRUE ELSE f.ready]
              ELSE f
    IN [w EXCEPT !.gs.combo = [c EXCEPT !.current = cur, !.timer = combo_timeout * FP],
                 !.gs.finisher = f2]

\* a call of add_combo, observed: the combo and the meter before and after it
add_combo_call(w) ==
    [add_combo(w) EXCEPT
       !.log.combos = Append(@, [current |-> w.gs.combo.current,
                                 timer |-> w.gs.combo.timer,
                                 meter |-> w.gs.finisher.meter,
                                 ready |-> w.gs.finisher.ready,
                                 current_after |-> add_combo(w).gs.combo.current,
                                 timer_after |-> add_combo(w).gs.combo.timer,
                                 meter_after |-> add_combo(w).gs.finisher.meter,
                                 ready_after |-> add_combo(w).gs.finisher.ready])]

\* mutation of update_combo_system: the expiry does not record the maximum
update_combo_system_forgets_max(w) ==
    LET c == w.gs.combo IN
    IF c.timer > 0
    THEN LET t == update_timer(w, c.timer, 1) IN
         IF t <= 0
         THEN [w EXCEPT !.gs.combo = [current |-> 0, timer |-> t, max |-> c.max],
                        !.log.expired = TRUE]
         ELSE [w EXCEPT !.gs.combo.timer = t]
    ELSE w

update_combo_system(w) ==
    LET c == w.gs.combo IN
    IF c.timer > 0
    THEN LET t == update_timer(w, c.timer, 1) IN
         IF t <= 0
         THEN [w EXCEPT !.gs.combo = [current |-> 0, timer |-> t,
                                      max |-> Max(c.max, c.current)],
                        !.log.expired = TRUE]
         ELSE [w EXCEPT !.gs.combo.timer = t]
    ELSE w

\* mutation of update_finisher_meter: the decay leaves the ready flag alone
update_finisher_meter_keeps_ready(w) ==
    LET f == w.gs.finisher IN
    IF w.gs.combo.current = 0 /\ f.meter > 0
    THEN [w EXCEPT !.gs.finisher.meter =
                      Max(0, f.meter - (((2 * MeterFP) \div fps) * w.gs.time_scale) \div FP)]
    ELSE w

update_finisher_meter(w) ==
    LET f == w.gs.finisher IN
    IF w.gs.combo.current = 0 /\ f.meter > 0
    THEN LET decay_per_frame == (2 * MeterFP) \div fps
             meter == Max(0, f.meter - (decay_per_frame * w.gs.time_scale) \div FP)
         IN [w EXCEPT !.gs.finisher.meter = meter,
                      !.gs.finisher.ready = IF meter < 100 * MeterFP THEN FALSE ELSE f.ready]
    ELSE w

update_visual_effects(w) == update_finisher_meter(update_combo_system(w))

-----------------------------------------------------------------------------
(* Progression multipliers read by the core (upgrade levels are in gs) *)

damage_multiplier_per_level_x10 == 2     \* 0.2, in tenths
dash_cooldown_reduction_per_level == 20

\* int(get_damage_multiplier()) = int(1.0 + level * 0.2)
get_damage_multiplier(w) ==
    (10 + w.gs.upgrade_levels.damage * damage_multiplier_per_level_x10) \div 10

get_dash_cooldown_reduction(w) ==
    w.gs.upgrade_levels.dash_cooldown * dash_cooldown_reduction_per_level

-----------------------------------------------------------------------------
(* Finisher *)

\* scaled(ship_max_speed) * dash_speed_multiplier * dash_duration, in 1/PX pixel
dash_distance == (ship_max_speed_x10 * dash_speed_multiplier * dash_duration * PX) \div 10

\* t of enemy e on the dash segment, as the numerator of t = num / dash_length_sq,
\* clamped to [0, 1]
dash_t(start_x, dash_dx, e) ==
    Max(0, Min(dash_dx * dash_dx, (e.x - start_x) * dash_dx))

\* the point of the dash segment closest to enemy e: start + t * dash_dx
dash_closest(start_x, dash_dx, e) ==
    LET num == (e.x - start_x) * dash_dx IN
    IF num <= 0 THEN start_x
    ELSE IF num >= dash_dx * dash_dx THEN start_x + dash_dx
    ELSE e.x

dash_hits(start_x, dash_dx, e) ==
    LET collision_radius == e.radius + ship_radius * PX
        d == e.x - dash_closest(start_x, dash_dx, e)
    IN d * d <= collision_radius * collision_radius

\* the first enemy of the list with the smallest t among those the dash reaches
\* (the loop replaces closest_enemy only when t < min_t); None when there is none
check_finisher_collision(w, dash_angle) ==
    LET start_x == w.ship.x
        dash_dx == cos_of(dash_angle) * dash_distance
        hit == {i \in DOMAIN w.enemies : dash_hits(start_x, dash_dx, w.enemies[i])}
        t(i) == dash_t(start_x, dash_dx, w.enemies[i])
    IN IF hit = {} THEN None
       ELSE LET i == CHOOSE i \in hit :
                        \A j \in hit : t(i) < t(j) \/ (t(i) = t(j) /\ i <= j)
            IN w.enemies[i].id

total_finisher_frames ==
    finisher_lock_on_time + finisher_pre_impact_time
    + finisher_impact_time + finisher_post_impact_time

\* mutation of start_finisher_execution: no invulnerability is granted
start_finisher_execution_exposed(w, target) ==
    LET e == CHOOSE e \in {w.enemies[i] : i \in DOMAIN w.enemies} : e.id = target
    IN [w EXCEPT
          !.gs.finisher.executing = TRUE,
          !.gs.finisher.phase = "lock_on",
          !.gs.finisher.execution_timer = finisher_lock_on_time,
          !.gs.finisher.target = target,
          !.ship.angle = angle_to(e.x - w.ship.x),
          !.gs.finisher.impact_x = w.ship.x + (cos_of(angle_to(e.x - w.ship.x)) * dash_distance) \div 2,
          !.gs.time_scale = finisher_lock_on_scale,
          !.log.started = TRUE,
          !.log.fticks = 0,
          !.log.shock_calls = 0]

start_finisher_execution(w, target) ==
    LET e == CHOOSE e \in {w.enemies[i] : i \in DOMAIN w.enemies} : e.id = target
        invuln_duration == total_finisher_frames + (finisher_invuln_buffer_x10 * fps) \div 10
    IN [w EXCEPT
          !.gs.finisher.executing = TRUE,
          !.gs.finisher.phase = "lock_on",
          !.gs.finisher.execution_timer = finisher_lock_on_time,
          !.gs.finisher.target = target,
          !.ship.angle = angle_to(e.x - w.ship.x),
          !.gs.finisher.impact_x = w.ship.x + (cos_of(angle_to(e.x - w.ship.x)) * dash_distance) \div 2,
          !.ship.invulnerable = Max(w.ship.invulnerable, invuln_duration * FP),
          !.gs.time_scale = finisher_lock_on_scale,
          !.log.started = TRUE,
          !.log.fticks = 0,
          !.log.shock_calls = 0]

enemy_score == 200
finisher_score == 500

RECURSIVE shockwave_loop(_, _, _, _)
\* the loop of apply_shockwave_damage over the copy `es` of g_enemies
shockwave_loop(w, es, x, radius) ==
    IF es = <<>> THEN w
    ELSE LET enemy == Head(es)
             dist_sq == distance_squared(x, enemy.x)
         IN IF dist_sq < radius * radius
            THEN LET damage == IF 4 * dist_sq < radius * radius   \* dist < radius * 0.5
                               THEN finisher_damage_close ELSE finisher_damage_far
                     health == enemy.health - damage
                     w1 == IF health <= 0
                           THEN add_combo_call(
                                  [w EXCEPT !.enemies = SelectSeq(w.enemies, LAMBDA o : o.id # enemy.id),
                                            !.gs.score = w.gs.score + enemy_score])
                           ELSE [w EXCEPT !.enemies =
                                   [i \in DOMAIN w.enemies |->
                                      IF w.enemies[i].id = enemy.id
                                      THEN [w.enemies[i] EXCEPT !.health = health]
                                      ELSE w.enemies[i]]]
                 IN shockwave_loop(w1, Tail(es), x, radius)
            ELSE shockwave_loop(w, Tail(es), x, radius)

apply_shockwave_damage(w, x, radius) ==
    shockwave_loop([w EXCEPT !.log.shock_calls = w.log.shock_calls + 1], w.enemies, x, radius)

\* damage_points = [0.3, 0.6], in hundredths
damage_points == <<30, 60>>

\* dmg_point <= progress < dmg_point + 0.02, progress = 1 - execution_timer / impact_time
at_damage_point(timer, dp) ==
    /\ dp * finisher_impact_time <= 100 * (finisher_impact_time - timer)
    /\ 100 * (finisher_impact_time - timer) < (dp + 2) * finisher_impact_time

RECURSIVE damage_point_loop(_, _)
damage_point_loop(w, k) ==
    IF k > Len(damage_points) THEN w
    ELSE damage_point_loop(
           IF at_damage_point(w.gs.finisher.execution_timer, damage_points[k])
           THEN apply_shockwave_damage(w, w.gs.finisher.impact_x, w.gs.finisher.shockwave_radius)
           ELSE w,
           k + 1)

\* mutation of end_impact: the time scale is not restored
end_impact_keeps_scale(w) ==
    IF w.gs.finisher.execution_timer <= 1
    THEN [w EXCEPT !.gs.finisher.phase = "post_impact",
                   !.gs.finisher.execution_timer = finisher_post_impact_time]
    ELSE w

\* update_finisher, IMPACT branch, `if finisher_state["execution_timer"] <= 1:`
end_impact(w) ==
    IF w.gs.finisher.execution_timer <= 1
    THEN [w EXCEPT !.gs.finisher.phase = "post_impact",
                   !.gs.finisher.execution_timer = finisher_post_impact_time,
                   !.gs.time_scale = FP]
    ELSE w

\* mutation of finisher_transition: LOCK_ON hands over to IMPACT directly
finisher_transition_skips(w) ==
    IF w.gs.finisher.phase = "post_impact"
    THEN [w EXCEPT !.gs.finisher.executing = FALSE,
                   !.gs.finisher.phase = "idle",
                   !.gs.finisher.target = None,
                   !.ship.dashing = 0]
    ELSE IF w.gs.finisher.phase = "impact"
    THEN [w EXCEPT !.gs.finisher.phase = "post_impact",
                   !.gs.finisher.execution_timer = finisher_post_impact_time,
                   !.gs.time_scale = FP]
    ELSE [w EXCEPT !.gs.finisher.phase = "impact",
                   !.gs.finisher.execution_timer = finisher_impact_time,
                   !.gs.finisher.meter = 0,
                   !.gs.finisher.ready = FALSE,
                   !.gs.time_scale = finisher_time_scale]

\* create_powerup(x, y, kind), as a record of the drop (the finisher's drop only:
\* the pickups themselves are outside the model)
create_powerup(w, x, kind) ==
    [w EXCEPT !.log.powerups = Append(@, [x |-> x, kind |-> kind])]

\* mutation of pre_impact_to_impact: the target is not looked up in the enemy
\* list before the kill is paid
pre_impact_to_impact_unchecked(w) ==
    create_powerup(
      [w EXCEPT !.gs.finisher.phase = "impact",
                !.gs.finisher.execution_timer = finisher_impact_time,
                !.gs.time_scale = finisher_time_scale,
                !.gs.finisher.shockwave_radius = 10 * PX,
                !.gs.score = w.gs.score + finisher_score,
                !.gs.dash_cooldown = 0,
                !.gs.combo.timer = combo_timeout * FP,
                !.enemies = SelectSeq(w.enemies, LAMBDA o : o.id # w.gs.finisher.target)],
      0, "crystal")

\* update_finisher, `elif finisher_state["phase"] == FinisherPhase.PRE_IMPACT:`
pre_impact_to_impact(w) ==
    LET f == w.gs.finisher
        w1 == [w EXCEPT !.gs.finisher.phase = "impact",
                        !.gs.finisher.execution_timer = finisher_impact_time,
                        !.gs.time_scale = finisher_time_scale]
        present == {i \in DOMAIN w.enemies : w.enemies[i].id = f.target}
    IN IF f.target # None /\ present # {}
       THEN LET t == w.enemies[CHOOSE i \in present : TRUE] IN
            create_powerup(
              [w1 EXCEPT !.gs.finisher.impact_x = t.x,
                         !.gs.finisher.shockwave_radius = 10 * PX,
                         !.gs.score = w.gs.score + finisher_score,
                         !.gs.dash_cooldown = 0,
                         !.gs.combo.timer = combo_timeout * FP,
                         !.enemies = SelectSeq(w.enemies, LAMBDA o : o.id # f.target)],
              t.x, "crystal")
       ELSE w1

\* the PRE_IMPACT branch, observed: the world before it (w) and after it (r)
log_impact(w, r) ==
    [r EXCEPT !.log.impact =
       Append(@, [target |-> w.gs.finisher.target,
                  enemies |-> w.enemies, enemies_after |-> r.enemies,
                  score |-> w.gs.score, score_after |-> r.gs.score,
                  dash_cooldown |-> w.gs.dash_cooldown,
                  dash_cooldown_after |-> r.gs.dash_cooldown,
                  timer |-> w.gs.combo.timer, timer_after |-> r.gs.combo.timer,
                  drops |-> Len(r.log.powerups) - Len(w.log.powerups),
                  phase_after |-> r.gs.finisher.phase])]

\* the branch of update_finisher taken when the phase timer has run out
finisher_transition(w) ==
    LET f == w.gs.finisher IN
    CASE f.phase = "lock_on" ->
           [w EXCEPT !.gs.finisher.phase = "pre_impact",
                     !.gs.finisher.execution_timer = finisher_pre_impact_time,
                     !.gs.finisher.meter = 0,
                     !.gs.finisher.ready = FALSE,
                     !.ship.dashing = (finisher_pre_impact_time + finisher_impact_time
                                       + finisher_post_impact_time) * FP]
      [] f.phase = "pre_impact" -> log_impact(w, pre_impact_to_impact(w))
      [] f.phase = "impact" ->
           LET max_radius == finisher_shockwave_radius * PX
               radius == 10 * PX + ((max_radius - 10 * PX)
                                    * (finisher_impact_time - f.execution_timer))
                                   \div finisher_impact_time
           IN end_impact(
                damage_point_loop([w EXCEPT !.gs.finisher.shockwave_radius = radius], 1))
      [] f.phase = "post_impact" ->
           [w EXCEPT !.gs.finisher.executing = FALSE,
                     !.gs.finisher.phase = "idle",
                     !.gs.finisher.target = None,
                     !.gs.finisher.shockwave_radius = 0,
                     !.ship.dashing = 0]
      [] OTHER -> w

\* mutation of update_finisher: the phase changes one tick late (timer < 0)
update_finisher_late(w) ==
    IF ~w.gs.finisher.executing THEN w
    ELSE LET w1 == [w EXCEPT !.gs.finisher.execution_timer = w.gs.finisher.execution_timer - 1,
                             !.log.fticks = w.log.fticks + 1]
         IN IF w1.gs.finisher.execution_timer < 0 THEN finisher_transition(w1) ELSE w1

update_finisher(w) ==
    IF ~w.gs.finisher.executing THEN w
    ELSE LET w1 == [w EXCEPT !.gs.finisher.execution_timer = w.gs.finisher.execution_timer - 1,
                             !.log.fticks = w.log.fticks + 1]
         IN IF w1.gs.finisher.execution_timer <= 0 THEN finisher_transition(w1) ELSE w1

-----------------------------------------------------------------------------
(* Ship *)

is_ship_vulnerable(w) == w.ship.invulnerable = 0 /\ w.ship.dashing = 0

reset_ship(w) ==
    [w EXCEPT !.ship.x = (screen_width \div 2) * PX,
              !.ship.angle = 0,
              !.ship.invulnerable = ship_invulnerability_time * FP,
              !.ship.respawning = ship_respawn_duration * FP,
              !.ship.dashing = 0]

update_ship_timers(w) ==
    [w EXCEPT !.ship.invulnerable = update_timer(w, w.ship.invulnerable, 1),
              !.ship.shield_active = update_timer(w, w.ship.shield_active, 1),
              !.gs.dash_cooldown = update_timer(w, w.gs.dash_cooldown, 1)]

update_ship(w) ==
    IF w.gs.game_over THEN w
    ELSE IF w.ship.respawning > 0
    THEN [w EXCEPT !.ship.respawning = w.ship.respawning - 1 * FP]
    ELSE IF w.ship.dashing > 0
    THEN LET dashing == IF w.gs.finisher.executing
                        THEN w.ship.dashing - 1 * FP
                        ELSE update_timer(w, w.ship.dashing, 1)
         IN update_ship_timers(
              [w EXCEPT !.ship.dashing = dashing,
                        !.ship.invulnerable = Max(w.ship.invulnerable, dashing)])
    ELSE update_ship_timers(w)

execute_normal_dash(w) ==
    [w EXCEPT !.ship.dashing = dash_duration * FP,
              !.gs.dash_cooldown = (dash_cooldown - get_dash_cooldown_reduction(w)) * FP]

\* mutation of handle_dash_input: a held key counts as a press
handle_dash_input_no_edge(w, current_dash, prev_keys_dash) ==
    IF current_dash
       /\ w.gs.dash_cooldown <= 0 /\ w.ship.respawning = 0 /\ w.ship.dashing = 0
    THEN IF w.gs.finisher.ready /\ ~w.gs.finisher.executing /\ w.enemies # <<>>
         THEN LET target == check_finisher_collision(w, w.ship.angle) IN
              IF target # None THEN start_finisher_execution(w, target)
              ELSE execute_normal_dash(w)
         ELSE execute_normal_dash(w)
    ELSE w

handle_dash_input(w, current_dash, prev_keys_dash) ==
    IF current_dash /\ ~prev_keys_dash
       /\ w.gs.dash_cooldown <= 0 /\ w.ship.respawning = 0 /\ w.ship.dashing = 0
    THEN IF w.gs.finisher.ready /\ ~w.gs.finisher.executing /\ w.enemies # <<>>
         THEN LET target == check_finisher_collision(w, w.ship.angle) IN
              IF target # None THEN start_finisher_execution(w, target)
              ELSE execute_normal_dash(w)
         ELSE execute_normal_dash(w)
    ELSE w

\* mutation of handle_ship_damage: the shield is consumed and the life is lost too
handle_ship_damage_through_shield(w) ==
    LET w1 == [w EXCEPT !.ship.shield_active = 0, !.gs.lives = w.gs.lives - 1]
    IN IF w1.gs.lives <= 0
       THEN [w |-> [w1 EXCEPT !.gs.game_over = TRUE], ret |-> TRUE]
       ELSE [w |-> reset_ship(w1), ret |-> TRUE]

\* handle_ship_damage: the world after it and its return value
handle_ship_damage(w) ==
    IF w.ship.shield_active > 0
    THEN [w |-> [w EXCEPT !.ship.shield_active = 0], ret |-> FALSE]
    ELSE LET w1 == [w EXCEPT !.gs.lives = w.gs.lives - 1, !.gs.untouchable_level = FALSE]
         IN IF w1.gs.lives <= 0
            THEN [w |-> [w1 EXCEPT !.gs.game_over = TRUE], ret |-> TRUE]
            ELSE [w |-> reset_ship(w1), ret |-> TRUE]

\* a call of handle_ship_damage from a collision loop; the ship and the lives
\* before and after the call are appended to the frame's log
ship_hit(w) ==
    LET r == handle_ship_damage(w)
        call == [ship |-> w.ship, lives |-> w.gs.lives,
                 ship_after |-> r.w.ship, lives_after |-> r.w.gs.lives]
    IN [r EXCEPT !.w.log.calls = Append(@, call)]

-----------------------------------------------------------------------------
(* Ship collisions *)

RECURSIVE ship_asteroid_loop(_, _)
ship_asteroid_loop(w, i) ==
    IF i > Len(w.asteroids) THEN w
    ELSE LET asteroid == w.asteroids[i]
             margin == asteroid_collision_margin * PX
         IN IF check_collision(w.ship.x, asteroid.x, ship_radius * PX,
                               asteroid_radius(asteroid) + margin)
            THEN LET r == ship_hit(w) IN
                 IF r.ret THEN r.w ELSE ship_asteroid_loop(r.w, i + 1)
            ELSE ship_asteroid_loop(w, i + 1)

handle_ship_asteroid_collisions(w) == ship_asteroid_loop(w, 1)

RECURSIVE ship_enemy_loop(_, _, _)
\* the world and enemies_to_remove after the loop from index i on
ship_enemy_loop(w, i, to_remove) ==
    IF i > Len(w.enemies) THEN [w |-> w, to_remove |-> to_remove]
    ELSE IF check_collision(w.ship.x, w.enemies[i].x, ship_radius * PX, w.enemies[i].radius)
    THEN LET r == ship_hit(w) IN
         IF r.ret THEN [w |-> r.w, to_remove |-> to_remove \cup {i}]
         ELSE ship_enemy_loop(r.w, i + 1, to_remove \cup {i})
    ELSE ship_enemy_loop(w, i + 1, to_remove)

\* s without the elements whose index is in to_remove
Compact(s, to_remove) ==
    LET keep[i \in 0..Len(s)] ==
          IF i = 0 THEN <<>>
          ELSE IF i \in to_remove THEN keep[i - 1] ELSE Append(keep[i - 1], s[i])
    IN keep[Len(s)]

handle_ship_enemy_collisions(w) ==
    LET r == ship_enemy_loop(w, 1, {}) IN
    [r.w EXCEPT !.enemies = Compact(r.w.enemies, r.to_remove)]

RECURSIVE ship_bullet_loop(_, _, _)
ship_bullet_loop(w, i, to_remove) ==
    IF i > Len(w.enemy_bullets) THEN [w |-> w, to_remove |-> to_remove]
    ELSE IF check_collision(w.ship.x, w.enemy_bullets[i].x, ship_radius * PX,
                            bullet_radius * PX * 2)
    THEN LET r == ship_hit(w) IN
         IF r.ret THEN [w |-> r.w, to_remove |-> to_remove \cup {i}]
         ELSE ship_bullet_loop(r.w, i + 1, to_remove \cup {i})
    ELSE ship_bullet_loop(w, i + 1, to_remove)

handle_ship_bullet_collisions(w) ==
    LET r == ship_bullet_loop(w, 1, {}) IN
    [r.w EXCEPT !.enemy_bullets = Compact(r.w.enemy_bullets, r.to_remove)]

handle_ship_collisions_if_vulnerable(w) ==
    IF is_ship_vulnerable(w)
    THEN handle_ship_bullet_collisions(
           handle_ship_enemy_collisions(
             handle_ship_asteroid_collisions(w)))
    ELSE w

-----------------------------------------------------------------------------
(* Entity creation *)

\* create_asteroid(x, y, size, is_boss): size clamped, health by kind
create_asteroid(x, size, is_boss) ==
    [x |-> x, vx |-> 0,
     size |-> Max(asteroid_min_size, Min(asteroid_max_size, size)),
     is_boss |-> is_boss,
     health |-> IF is_boss THEN boss_health ELSE 1]

\* ids stand for object identity: a new enemy is a new object, distinct from every
\* live enemy and from a stale finisher target
new_enemy_id(w) ==
    LET used == {w.enemies[i].id : i \in DOMAIN w.enemies} \cup {w.gs.finisher.target}
    IN CHOOSE k \in 1..(Cardinality(used) + 1) :
         k \notin used /\ \A m \in 1..(k - 1) : m \in used

RECURSIVE spawn_loop(_, _, _, _)
\* the retry loop of create_enemy: x is the candidate so far (None before the
\* first draw), draws[k] the point that the random calls of attempt k return.
\* `if x is None:` lets only an attempt that finds x unset take its draw.
spawn_loop(w, x, draws, attempts) ==
    IF attempts >= enemy_max_spawn_attempts THEN x
    ELSE IF distance_squared(IF x = None THEN draws[attempts + 1] ELSE x, w.ship.x)
              >= (enemy_min_spawn_distance * PX) * (enemy_min_spawn_distance * PX)
         THEN IF x = None THEN draws[attempts + 1] ELSE x
         ELSE spawn_loop(w, IF x = None THEN draws[attempts + 1] ELSE x, draws,
                         attempts + 1)

\* create_enemy() with the random spawn points draws and cooldown jitter jit
create_enemy(w, draws, jit) ==
    [id |-> new_enemy_id(w), x |-> spawn_loop(w, None, draws, 0), health |-> enemy_health,
     fire_cooldown |-> (enemy_fire_rate + jit) * FP, radius |-> enemy_radius * PX]

-----------------------------------------------------------------------------
(* Bullet collisions.  acc = [w, bullets_to_remove, asteroids_to_remove,        *)
(* asteroids_to_add, enemies_to_remove]; rnd holds the frame's random draws.    *)

boss_score == 1000
asteroid_scores == [s \in 1..3 |-> CASE s = 3 -> 100 [] s = 2 -> 50 [] OTHER -> 20]

\* handle_asteroid_hit, `if g_game_state["score"] > g_game_state["high_score"]:`
update_high_score(w) == [w EXCEPT !.gs.high_score = Max(w.gs.high_score, w.gs.score)]

\* handle_asteroid_hit, `if random.random() < Cfg.enemy_spawn_chance and
\* len(g_enemies) < Cfg.enemy_max_count:`; the draw of this hit succeeds when its
\* ordinal in the frame is in rnd.spawn
\* a spawn roll, observed: whether the draw succeeded, and the number of enemies
\* in the list before the roll (w) and after it (r)
log_roll(w, r, rnd) ==
    [r EXCEPT !.log.rolls = @ + 1,
              !.log.rolled = Append(@, [draw |-> (w.log.rolls + 1 \in rnd.spawn),
                                        count |-> Len(w.enemies),
                                        count_after |-> Len(r.enemies)])]

\* mutation of roll_enemy_spawn: the length of the enemy list is not consulted
roll_enemy_spawn_uncapped(w, rnd) ==
    log_roll(w,
             IF w.log.rolls + 1 \in rnd.spawn
             THEN [w EXCEPT !.enemies = Append(@, create_enemy(w, rnd.ex, rnd.jit))]
             ELSE w,
             rnd)

roll_enemy_spawn(w, rnd) ==
    log_roll(w,
             IF (w.log.rolls + 1 \in rnd.spawn) /\ Len(w.enemies) < enemy_max_count
             THEN [w EXCEPT !.enemies = Append(@, create_enemy(w, rnd.ex, rnd.jit))]
             ELSE w,
             rnd)

\* mutation of handle_asteroid_hit: a plain asteroid of size above 1 stays in the
\* list when it splits
handle_asteroid_hit_keeps_large(acc, index, rnd) ==
    LET w == acc.w
        asteroid == w.asteroids[index]
        score_value == (asteroid_scores[asteroid.size] * (10 + w.gs.combo.current)) \div 10
        children == IF asteroid.size > 1
                    THEN [k \in 1..asteroid_split_count |->
                            create_asteroid(asteroid.x, asteroid.size - 1, FALSE)]
                    ELSE <<>>
    IN [acc EXCEPT !.asteroids_to_remove = IF asteroid.size > 1 THEN @ ELSE @ \cup {index},
                   !.asteroids_to_add = @ \o children,
                   !.w = roll_enemy_spawn(
                           update_high_score(
                             add_combo_call([w EXCEPT !.gs.score = w.gs.score + score_value])),
                           rnd)]

handle_asteroid_hit(acc, index, rnd) ==
    LET w == acc.w
        asteroid == w.asteroids[index]
        damage == get_damage_multiplier(w)
    IN IF asteroid.is_boss
       THEN LET health == asteroid.health - Max(1, damage)
                w1 == [w EXCEPT !.asteroids[index].health = health]
            IN IF health <= 0
               THEN [acc EXCEPT
                       !.asteroids_to_remove = @ \cup {index},
                       !.w = [add_combo_call([w1 EXCEPT !.gs.score = w.gs.score + boss_score])
                                EXCEPT !.gs.boss_kills = w.gs.boss_kills + 1]]
               ELSE [acc EXCEPT !.w = w1]
       ELSE LET base_score == asteroid_scores[asteroid.size]
                \* int(base_score * (1 + combo.current * 0.1))
                score_value == (base_score * (10 + w.gs.combo.current)) \div 10
                children == IF asteroid.size > 1
                            THEN [k \in 1..asteroid_split_count |->
                                    create_asteroid(asteroid.x, asteroid.size - 1, FALSE)]
                            ELSE <<>>
            IN [acc EXCEPT !.asteroids_to_remove = @ \cup {index},
                           !.asteroids_to_add = @ \o children,
                           !.w = roll_enemy_spawn(
                                   update_high_score(
                                     add_combo_call([w EXCEPT !.gs.score = w.gs.score + score_value])),
                                   rnd)]

handle_enemy_hit(acc, index) ==
    LET w == acc.w
        damage == get_damage_multiplier(w)
        health == w.enemies[index].health - Max(1, damage)
        w1 == [w EXCEPT !.enemies[index].health = health]
    IN IF health <= 0
       THEN [acc EXCEPT !.enemies_to_remove = @ \cup {index},
                        !.w = add_combo_call([w1 EXCEPT !.gs.score = w.gs.score + enemy_score])]
       ELSE [acc EXCEPT !.w = w1]

\* mutation of first_asteroid_hit: asteroids_to_remove is not consulted
first_asteroid_hit_any(acc, i) ==
    LET w == acc.w
        margin == asteroid_collision_margin * PX
        hit == {j \in DOMAIN w.asteroids :
                  check_collision(w.bullets[i].x, w.asteroids[j].x, bullet_radius * PX,
                                  asteroid_radius(w.asteroids[j]) + margin)}
    IN IF hit = {} THEN 0 ELSE CHOOSE j \in hit : \A k \in hit : j <= k

\* the first asteroid not yet removed that bullet i collides with, or 0
first_asteroid_hit(acc, i) ==
    LET w == acc.w
        margin == asteroid_collision_margin * PX
        hit == {j \in DOMAIN w.asteroids :
                  /\ j \notin acc.asteroids_to_remove
                  /\ check_collision(w.bullets[i].x, w.asteroids[j].x, bullet_radius * PX,
                                     asteroid_radius(w.asteroids[j]) + margin)}
    IN IF hit = {} THEN 0 ELSE CHOOSE j \in hit : \A k \in hit : j <= k

\* the first enemy not yet removed that bullet i collides with, or 0
first_enemy_hit(acc, i) ==
    LET w == acc.w
        hit == {j \in DOMAIN w.enemies :
                  /\ j \notin acc.enemies_to_remove
                  /\ check_collision(w.bullets[i].x, w.enemies[j].x, bullet_radius * PX,
                                     w.enemies[j].radius)}
    IN IF hit = {} THEN 0 ELSE CHOOSE j \in hit : \A k \in hit : j <= k

log_hit(acc, i, kind, j) ==
    [acc EXCEPT !.w.log.bhits = Append(@, [bullet |-> i, kind |-> kind, index |-> j])]

RECURSIVE bullet_asteroid_loop(_, _, _)
bullet_asteroid_loop(acc, i, rnd) ==
    IF i > Len(acc.w.bullets) THEN acc
    ELSE IF i \in acc.bullets_to_remove THEN bullet_asteroid_loop(acc, i + 1, rnd)
    ELSE LET j == first_asteroid_hit(acc, i) IN
         IF j = 0 THEN bullet_asteroid_loop(acc, i + 1, rnd)
         ELSE bullet_asteroid_loop(
                handle_asteroid_hit(
                  log_hit([acc EXCEPT !.bullets_to_remove = @ \cup {i}], i, "asteroid", j),
                  j, rnd),
                i + 1, rnd)

\* bullet i enters the inner loop over the enemies
log_tested(acc, i) == [acc EXCEPT !.w.log.tested = @ \cup {i}]

RECURSIVE bullet_enemy_loop_reuses(_, _)
\* mutation of bullet_enemy_loop: bullets_to_remove is not consulted
bullet_enemy_loop_reuses(acc, i) ==
    IF i > Len(acc.w.bullets) THEN acc
    ELSE LET j == first_enemy_hit(acc, i) IN
         IF j = 0 THEN bullet_enemy_loop_reuses(log_tested(acc, i), i + 1)
         ELSE bullet_enemy_loop_reuses(
                handle_enemy_hit(
                  log_hit(log_tested([acc EXCEPT !.bullets_to_remove = @ \cup {i}], i),
                          i, "enemy", j),
                  j),
                i + 1)

RECURSIVE bullet_enemy_loop(_, _)
bullet_enemy_loop(acc, i) ==
    IF i > Len(acc.w.bullets) THEN acc
    ELSE IF i \in acc.bullets_to_remove THEN bullet_enemy_loop(acc, i + 1)
    ELSE LET j == first_enemy_hit(acc, i) IN
         IF j = 0 THEN bullet_enemy_loop(log_tested(acc, i), i + 1)
         ELSE bullet_enemy_loop(
                handle_enemy_hit(
                  log_hit(log_tested([acc EXCEPT !.bullets_to_remove = @ \cup {i}], i),
                          i, "enemy", j),
                  j),
                i + 1)

\* the list comprehensions that end handle_bullet_collisions
compact_lists(acc) ==
    [acc.w EXCEPT
       !.log.bullets_after = Compact(acc.w.bullets, acc.bullets_to_remove),
       !.log.asteroids_after =
           Compact(acc.w.asteroids, acc.asteroids_to_remove) \o acc.asteroids_to_add,
       !.log.score_after = acc.w.gs.score,
       !.log.combo_after = acc.w.gs.combo.current,
       !.bullets = Compact(acc.w.bullets, acc.bullets_to_remove),
       !.asteroids = Compact(acc.w.asteroids, acc.asteroids_to_remove) \o acc.asteroids_to_add,
       !.enemies = Compact(acc.w.enemies, acc.enemies_to_remove)]

handle_bullet_collisions(w, rnd) ==
    compact_lists(
      bullet_enemy_loop(
        bullet_asteroid_loop(
          [w |-> [w EXCEPT !.log.bullets_before = w.bullets, !.log.bullet_pass = TRUE,
                           !.log.asteroids_before = w.asteroids,
                           !.log.score_before = w.gs.score,
                           !.log.combo_before = w.gs.combo.current],
           bullets_to_remove |-> {}, asteroids_to_remove |-> {},
           asteroids_to_add |-> <<>>, enemies_to_remove |-> {}],
          1, rnd),
        1))

handle_collisions(w, rnd) ==
    handle_ship_collisions_if_vulnerable(handle_bullet_collisions(w, rnd))

-----------------------------------------------------------------------------
(* Object updates *)

\* update_entity_physics with wrap, for an entity with velocity vx
update_entity_physics(w, e) ==
    [e EXCEPT !.x = (e.x + (e.vx * w.gs.time_scale) \div FP) % (screen_width * PX)]

update_asteroids(w) ==
    [w EXCEPT !.asteroids = [i \in DOMAIN w.asteroids |-> update_entity_physics(w, w.asteroids[i])]]

\* a bullet list after one frame of flight: moved, aged, expired ones dropped
fly(w, bs) ==
    LET moved == [i \in DOMAIN bs |->
                    [bs[i] EXCEPT !.x = bs[i].x + (bs[i].vx * w.gs.time_scale) \div FP,
                                  !.life = update_timer(w, bs[i].life, 1)]]
    IN SelectSeq(moved, LAMBDA b : b.life > 0 /\ 0 <= b.x /\ b.x <= screen_width * PX)

update_bullets(w) == [w EXCEPT !.bullets = fly(w, w.bullets)]

update_enemy_bullets(w) == [w EXCEPT !.enemy_bullets = fly(w, w.enemy_bullets)]

\* shoot_bullet(is_enemy=True) from enemy e, which faces the ship
enemy_bullet(w, e) ==
    LET c == cos_of(angle_to(w.ship.x - e.x)) IN
    [x |-> e.x + ship_nose_length * PX * c,
     vx |-> (c * bullet_speed * PX * enemy_bullet_speed_mult_x10) \div 10,
     life |-> bullet_lifetime * FP]

\* mutation of update_enemy_shooting: the distance to the ship is not consulted
update_enemy_shooting_any_distance(w, i, rnd) ==
    LET e == w.enemies[i]
        cooldown == update_timer(w, e.fire_cooldown, 1)
    IN IF cooldown <= 0
       THEN [w EXCEPT !.enemy_bullets = Append(@, enemy_bullet(w, e)),
                      !.log.shots = Append(@, e.id),
                      !.enemies[i].fire_cooldown = (enemy_fire_rate + rnd.jit) * FP]
       ELSE [w EXCEPT !.enemies[i].fire_cooldown = cooldown]

\* update_enemy_shooting for the enemy at index i; log.shots lists the enemies
\* that called shoot_bullet in the frame
update_enemy_shooting(w, i, rnd) ==
    LET e == w.enemies[i]
        cooldown == update_timer(w, e.fire_cooldown, 1)
        dx == w.ship.x - e.x
        distance == IF dx >= 0 THEN dx ELSE -dx
    IN IF cooldown <= 0 /\ enemy_min_fire_distance * PX < distance
                        /\ distance < enemy_max_fire_distance * PX
       THEN [w EXCEPT !.enemy_bullets = Append(@, enemy_bullet(w, e)),
                      !.log.shots = Append(@, e.id),
                      !.enemies[i].fire_cooldown = (enemy_fire_rate + rnd.jit) * FP]
       ELSE [w EXCEPT !.enemies[i].fire_cooldown = cooldown]

RECURSIVE update_enemies_loop(_, _, _)
update_enemies_loop(w, i, rnd) ==
    IF i > Len(w.enemies) THEN w
    ELSE update_enemies_loop(update_enemy_shooting(w, i, rnd), i + 1, rnd)

update_enemies(w, rnd) == update_enemies_loop(w, 1, rnd)

update_game_objects(w, rnd) ==
    update_enemies(update_enemy_bullets(update_bullets(update_asteroids(w))), rnd)

-----------------------------------------------------------------------------
(* Levels and the frame *)

start_new_level(w, rnd) ==
    LET level == w.gs.level
        asteroid_count == 3 + level
        boss == level % boss_spawn_interval = 0
        n == IF boss THEN Max(1, asteroid_count - 3) ELSE asteroid_count
        fresh == (IF boss THEN <<create_asteroid(rnd.ax, 3, TRUE)>> ELSE <<>>)
                 \o [k \in 1..n |-> create_asteroid(rnd.ax, 3, FALSE)]
    IN reset_ship([w EXCEPT !.enemies = <<>>, !.enemy_bullets = <<>>, !.asteroids = fresh,
                            !.gs.untouchable_level = TRUE])

\* update_game_state, `if g_game_state["level_transition"] == 0:` block
update_simulation(w, rnd) ==
    IF w.gs.level_transition = 0
    THEN handle_collisions(update_game_objects(update_ship(w), rnd), rnd)
    ELSE w

\* mutation of check_level_clear: the running transition is not consulted
check_level_clear_again(w) ==
    IF w.asteroids = <<>>
    THEN [w EXCEPT !.gs.level = @ + 1,
                   !.gs.level_transition = level_transition_duration * FP]
    ELSE w

\* update_game_state, `if not g_asteroids and level_transition == 0:` block
check_level_clear(w) ==
    IF w.asteroids = <<>> /\ w.gs.level_transition = 0
    THEN [w EXCEPT !.gs.level = @ + 1,
                   !.gs.level_transition = level_transition_duration * FP]
    ELSE w

\* update_game_state, `if g_game_state["level_transition"] > 0:` block
update_level_transition(w, rnd) ==
    IF w.gs.level_transition > 0
    THEN IF update_timer(w, w.gs.level_transition, 1) = 0
         THEN start_new_level([w EXCEPT !.gs.level_transition = 0], rnd)
         ELSE [w EXCEPT !.gs.level_transition = update_timer(w, w.gs.level_transition, 1)]
    ELSE w

update_game_state(w, rnd) ==
    update_level_transition(
      check_level_clear(
        update_simulation(update_finisher(update_visual_effects(w)), rnd)),
      rnd)

\* one iteration of run_game_loop while the game is running
run_game_loop(w, current_dash, prev_keys_dash, rnd) ==
    [update_game_state(handle_dash_input(w, current_dash, prev_keys_dash), rnd)
       EXCEPT !.gs.frame_count = @ + 1]

reset_game(w, rnd) ==
    reset_ship(
      [w EXCEPT
         !.gs = [frame_count |-> 0, score |-> 0, lives |-> 3, level |-> 1, game_over |-> FALSE,
                 time_scale |-> FP, level_transition |-> 0, dash_cooldown |-> 0,
                 combo |-> [current |-> 0, timer |-> 0, max |-> 0],
                 finisher |-> [meter |-> 0, ready |-> FALSE, executing |-> FALSE,
                               execution_timer |-> 0, phase |-> "idle", target |-> None,
                               shockwave_radius |-> 0, impact_x |-> 0],
                 high_score |-> w.gs.high_score,
                 crystals |-> 0,
                 untouchable_level |-> TRUE,
                 lifetime_crystals |-> w.gs.lifetime_crystals,
                 achievements_unlocked |-> w.gs.achievements_unlocked,
                 upgrade_levels |-> w.gs.upgrade_levels,
                 boss_kills |-> w.gs.boss_kills],
         !.ship.shield_active = 0,
         !.ship.respawning = 0,
         !.ship.dashing = 0,
         !.asteroids = [k \in 1..4 |-> create_asteroid(rnd.ax, 3, FALSE)],
         !.bullets = <<>>,
         !.enemies = <<>>,
         !.enemy_bullets = <<>>])

-----------------------------------------------------------------------------
(* Bounds of the model and the inputs drawn in each frame *)

MaxInitBullets == 2
MaxFrames == 135        \* loop iterations of a behaviour
PressEvery == 5         \* the dash key goes down only every PressEvery-th iteration

Centre == (screen_width \div 2) * PX
SpawnMargin == 50 * PX      \* asteroid_spawn_margin = enemy_spawn_margin = 50

\* x of a random edge spawn on the line: margin or screen_width - margin
SpawnX == {SpawnMargin, screen_width * PX - SpawnMargin}

\* fire-cooldown jitter, drawn from random.randint(-10, 10)
Jitter == {0}

\* the random draws of one frame: the asteroid hits (by ordinal) whose enemy-spawn
\* roll succeeds, the spawn point and cooldown jitter of a created enemy or of a
\* firing enemy, the spawn point of the asteroids of a new level.  A draw nobody
\* can read in this frame is fixed.
Rnd(w) ==
    LET hits == w.bullets # <<>> /\ w.asteroids # <<>> /\ w.gs.level_transition = 0
        fire == w.enemies # <<>> /\ w.gs.level_transition = 0
        fresh == w.gs.game_over
                 \/ (w.gs.level_transition > 0 /\ w.gs.level_transition <= FP)
    IN [spawn : IF hits THEN SUBSET (1..Len(w.bullets)) ELSE {{}},
        ex    : IF hits
                THEN {[k \in 1..enemy_max_spawn_attempts |-> IF k = 1 THEN a ELSE b]
                        : a \in SpawnX, b \in SpawnX}
                ELSE {[k \in 1..enemy_max_spawn_attempts |-> SpawnMargin]},
        jit   : Jitter,
        ax    : IF fresh THEN SpawnX ELSE {SpawnMargin}]

EmptyLog ==
    [started |-> FALSE, calls |-> <<>>, bullet_pass |-> FALSE, bhits |-> <<>>,
     tested |-> {}, bullets_before |-> <<>>, bullets_after |-> <<>>,
     asteroids_before |-> <<>>, asteroids_after |-> <<>>,
     score_before |-> 0, score_after |-> 0, combo_before |-> 0, combo_after |-> 0,
     achievement |-> <<>>, gets |-> <<>>, persist |-> <<>>, draws |-> <<>>, upgrade |-> <<>>, shots |-> <<>>, rolled |-> <<>>, combos |-> <<>>, expired |-> FALSE, impact |-> <<>>, powerups |-> <<>>, rolls |-> 0, fticks |-> 0, shock_calls |-> 0]

\* the log at the start of a frame: the per-frame observations are cleared
frame_log(l) ==
    [EmptyLog EXCEPT !.fticks = l.fticks, !.shock_calls = l.shock_calls]

\* the dash input of an iteration: a held key may stay down or go up, a
\* released key goes down only on every PressEvery-th iteration
DashInputs ==
    IF prev_dash \/ gs.frame_count % PressEvery = 0 THEN BOOLEAN ELSE {FALSE}

-----------------------------------------------------------------------------
(* Initial states: snapshots of a running game *)

Ship0(x, angle, invulnerable, shield) ==
    [x |-> x, angle |-> angle, invulnerable |-> invulnerable * FP,
     shield_active |-> shield * FP, respawning |-> 0, dashing |-> 0]

Enemy0(id, x, health) ==
    [id |-> id, x |-> x * PX, health |-> health,
     fire_cooldown |-> enemy_fire_rate * FP, radius |-> enemy_radius * PX]

Asteroid0(x, size) == create_asteroid(x * PX, size, FALSE)

\* a player bullet fired from x some frames ago, flying right
Bullet0(x, life) == [x |-> x * PX, vx |-> bullet_speed * PX, life |-> life * FP]

EnemyBullet0(x, life) ==
    [x |-> x * PX, vx |-> -((bullet_speed * PX * enemy_bullet_speed_mult_x10) \div 10),
     life |-> life * FP]

Finisher0(meter, ready) ==
    [meter |-> meter * MeterFP, ready |-> ready, executing |-> FALSE,
     execution_timer |-> 0, phase |-> "idle", target |-> None,
     shockwave_radius |-> 0, impact_x |-> 0]

GameState0(lives, level_transition, cooldown, combo, finisher) ==
    [frame_count |-> 0, score |-> 0, high_score |-> 0, lives |-> lives, level |-> 1, game_over |-> FALSE,
     time_scale |-> FP, level_transition |-> level_transition * FP,
     dash_cooldown |-> cooldown * FP, combo |-> combo, finisher |-> finisher,
     crystals |-> 0, lifetime_crystals |-> 0, achievements_unlocked |-> {},
     untouchable_level |-> TRUE,
     upgrade_levels |-> [damage |-> 0, fire_rate |-> 0, max_speed |-> 0, dash_cooldown |-> 0],
     boss_kills |-> 0]

NoCombo == [current |-> 0, timer |-> 0, max |-> 0]
Combo0(current, timer) == [current |-> current, timer |-> timer * FP, max |-> 0]

\* ship under attack: asteroids, enemies and enemy bullets on and off the ship
HitWorlds ==
    [ship : {Ship0(Centre, 0, 0, 0), Ship0(600 * PX, 0, 0, 0), Ship0(600 * PX, 0, 0, 4),
             Ship0(600 * PX, 0, 3, 0)},
     gs : {GameState0(l, 0, 0, NoCombo, Finisher0(0, FALSE)) : l \in {1, 3}},
     enemies : {<<>>, <<Enemy0(1, 400, 3)>>, <<Enemy0(1, 600, 3), Enemy0(2, 400, 3)>>},
     asteroids : {<<Asteroid0(600, 1), Asteroid0(610, 2)>>,
                  <<Asteroid0(600, 1), Asteroid0(400, 1)>>},
     bullets : {<<>>},
     enemy_bullets : {<<EnemyBullet0(410, 20)>>},
     prev_dash : {FALSE},
     log : {EmptyLog}]

\* finisher ready (a kill has just filled the meter), with and without a level
\* transition running
FinisherWorlds ==
    [ship : {Ship0(Centre, a, 0, 0) : a \in {0, 180}},
     gs : {GameState0(3, lt, 0, Combo0(8, t), Finisher0(100, TRUE)) :
             lt \in {0}, t \in {180, 20}},
     enemies : {<<Enemy0(1, 600, 3)>>, <<Enemy0(1, 600, 3), Enemy0(2, 500, 1)>>},
     asteroids : {<<Asteroid0(750, 1)>>},
     bullets : {<<>>, <<Bullet0(415, 49)>>},
     enemy_bullets : {<<>>},
     prev_dash : {FALSE},
     log : {EmptyLog}]

TransitionWorlds ==
    [ship : {Ship0(Centre, 0, 0, 0)},
     gs : {GameState0(3, lt, 0, Combo0(8, 180), Finisher0(100, TRUE)) : lt \in {15, 5, 100}},
     enemies : {<<Enemy0(1, 600, 3)>>},
     asteroids : {<<>>},
     bullets : {<<>>},
     enemy_bullets : {<<>>},
     prev_dash : BOOLEAN,
     log : {EmptyLog}]

\* player bullets in flight over asteroids and enemies
BulletWorlds ==
    [ship : {Ship0(Centre, 0, 0, 0)},
     gs : {GameState0(3, 0, 0, NoCombo, Finisher0(90, FALSE))},
     enemies : {<<>>, <<Enemy0(1, 600, 1)>>, <<Enemy0(1, 600, 3), Enemy0(2, 610, 1)>>},
     asteroids : {<<Asteroid0(600, 1)>>, <<Asteroid0(600, 2), Asteroid0(750, 1)>>},
     bullets : {bs \in UNION {[1..n -> {Bullet0(588, 30), Bullet0(500, 40)}]
                              : n \in 1..MaxInitBullets} : TRUE},
     enemy_bullets : {<<>>},
     prev_dash : {FALSE},
     log : {EmptyLog}]

\* the meter near its ends: a remainder smaller than one frame of decay with
\* no combo, and a kill that would carry the meter past 100
MeterWorlds ==
    [ship : {Ship0(Centre, 0, 0, 0)},
     gs : {GameState0(3, 0, 0, NoCombo, [Finisher0(0, FALSE) EXCEPT !.meter = 15]),
           GameState0(3, 0, 0, Combo0(4, 3), Finisher0(95, FALSE))},
     enemies : {<<>>},
     asteroids : {<<Asteroid0(600, 1), Asteroid0(100, 1)>>},
     bullets : {<<>>, <<Bullet0(588, 30)>>},
     enemy_bullets : {<<>>},
     prev_dash : {FALSE},
     log : {EmptyLog}]

\* two bullets over two asteroids, so that one bullet pass makes two spawn
\* rolls, with the enemy list empty, half full and full
SpawnWorlds ==
    [ship : {Ship0(Centre, 0, 0, 0)},
     gs : {GameState0(3, 0, 0, NoCombo, Finisher0(0, FALSE))},
     enemies : {<<>>, <<Enemy0(1, 700, 3)>>, <<Enemy0(1, 700, 3), Enemy0(2, 430, 3)>>},
     asteroids : {<<Asteroid0(600, 1), Asteroid0(610, 2)>>},
     bullets : {<<Bullet0(588, 30), Bullet0(588, 30)>>},
     enemy_bullets : {<<>>},
     prev_dash : {FALSE},
     log : {EmptyLog}]

\* the ship 350 px from an enemy whose cooldown is about to run out, and an
\* enemy bullet that will hit the ship and send it back to the centre, 150 px
\* from that enemy
ReentryWorlds ==
    [ship : {Ship0(600 * PX, 0, 0, 0)},
     gs : {GameState0(3, 0, 0, NoCombo, Finisher0(0, FALSE))},
     enemies : {<<[Enemy0(1, 250, 3) EXCEPT !.fire_cooldown = 3 * FP]>>},
     asteroids : {<<Asteroid0(100, 1)>>},
     bullets : {<<>>},
     enemy_bullets : {<<EnemyBullet0(700, 20)>>},
     prev_dash : {FALSE},
     log : {EmptyLog}]

InitWorlds ==
    HitWorlds \cup FinisherWorlds \cup TransitionWorlds \cup BulletWorlds \cup MeterWorlds
    \cup SpawnWorlds \cup ReentryWorlds

-----------------------------------------------------------------------------
(* Specification *)

Assign(w) ==
    /\ ship' = w.ship
    /\ gs' = w.gs
    /\ enemies' = w.enemies
    /\ asteroids' = w.asteroids
    /\ bullets' = w.bullets
    /\ enemy_bullets' = w.enemy_bullets
    /\ log' = w.log
    /\ UNCHANGED <<save_file, particle_pool, entity>>

Init ==
    \E w \in InitWorlds :
        /\ ship = w.ship
        /\ gs = w.gs
        /\ enemies = w.enemies
        /\ asteroids = w.asteroids
        /\ bullets = w.bullets
        /\ enemy_bullets = w.enemy_bullets
        /\ prev_dash = w.prev_dash
        /\ log = w.log
        /\ save_file = NoFile
    /\ particle_pool = ParticlePool0
    /\ entity = [x |-> 0, vx |-> 0]

\* one iteration of run_game_loop with the game running
Frame ==
    /\ ~gs.game_over
    /\ gs.frame_count < MaxFrames
    /\ \E current_dash \in DashInputs :
         /\ \E rnd \in Rnd(World) :
              Assign(run_game_loop([World EXCEPT !.log = frame_log(log)],
                                   current_dash, prev_dash, rnd))
         /\ prev_dash' = current_dash

\* the restart key or button while the game is over (handle_game_keys,
\* handle_controller_button_event)
ResetGame ==
    /\ gs.game_over
    /\ \E rnd \in Rnd(World) :
          Assign(reset_game([World EXCEPT !.log = EmptyLog], rnd))
    /\ UNCHANGED prev_dash

Next == Frame \/ ResetGame

Spec == Init /\ [][Next]_vars

-----------------------------------------------------------------------------
(* A boss level under fire: the frame loop started with a boss asteroid that   *)
(* has a few points of health left, bullets on their way to it, and the damage *)
(* upgrade at levels 0, 3 and 5 (multipliers 1.0, 1.6 and 2.0); and the level  *)
(* before it, with its last asteroid about to be shot and an enemy out of      *)
(* range.                                                                      *)

BossWorlds ==
    [ship : {Ship0(Centre, 0, 0, 0)},
     gs : {[GameState0(3, 0, 0, NoCombo, Finisher0(0, FALSE))
              EXCEPT !.level = boss_spawn_interval, !.upgrade_levels.damage = d]
           : d \in {0, 3, 5}},
     enemies : {<<>>},
     asteroids : {<<[create_asteroid(600 * PX, 3, TRUE) EXCEPT !.health = h]>> : h \in 1..3},
     bullets : {bs \in UNION {[1..n -> {Bullet0(588, 30), Bullet0(500, 40)}]
                              : n \in 1..MaxInitBullets} : TRUE},
     enemy_bullets : {<<>>},
     prev_dash : {FALSE},
     log : {EmptyLog}]
    \cup
    [ship : {Ship0(Centre, 0, 0, 0)},
     gs : {[GameState0(3, 0, 0, NoCombo, Finisher0(0, FALSE))
              EXCEPT !.level = boss_spawn_interval - 1]},
     enemies : {<<>>, <<Enemy0(1, 700, 3)>>},
     asteroids : {<<Asteroid0(600, 1)>>},
     bullets : {<<Bullet0(588, 30)>>, <<Bullet0(588, 30), Bullet0(500, 40)>>},
     enemy_bullets : {<<>>},
     prev_dash : {FALSE},
     log : {EmptyLog}]

BossInit ==
    \E w \in BossWorlds :
        /\ ship = w.ship
        /\ gs = w.gs
        /\ enemies = w.enemies
        /\ asteroids = w.asteroids
        /\ bullets = w.bullets
        /\ enemy_bullets = w.enemy_bullets
        /\ prev_dash = w.prev_dash
        /\ log = w.log
        /\ save_file = NoFile
        /\ particle_pool = ParticlePool0
        /\ entity = [x |-> 0, vx |-> 0]

BossNext == Frame

BossSpec == BossInit /\ [][BossNext]_vars

-----------------------------------------------------------------------------
(* The upgrade menu (progression_system.py).  The crystals come from pickups   *)
(* and achievement rewards, which are outside the model, so the menu is        *)
(* checked in a specification of its own that starts from a stock of crystals  *)
(* and from upgrade levels as load_game_state validates them.                  *)

\* Cfg.upgrades: max_level, cost_multiplier (in tenths) and base_cost
upgrades ==
    [damage        |-> [max_level |-> 5, cost_multiplier_x10 |-> 15, base_cost |-> 100],
     fire_rate     |-> [max_level |-> 5, cost_multiplier_x10 |-> 14, base_cost |-> 80],
     max_speed     |-> [max_level |-> 5, cost_multiplier_x10 |-> 13, base_cost |-> 60],
     dash_cooldown |-> [max_level |-> 3, cost_multiplier_x10 |-> 20, base_cost |-> 150]]

RECURSIVE Pow(_, _)
Pow(b, n) == IF n = 0 THEN 1 ELSE b * Pow(b, n - 1)

\* calculate_upgrade_cost: int(base_cost * multiplier ** level), or None (0: every
\* real cost is at least 60) for an unknown or maxed upgrade.  The floor of the
\* exact product is the value the floating-point expression truncates to at
\* every level of every upgrade.
calculate_upgrade_cost(w, upgrade_type) ==
    IF upgrade_type \notin DOMAIN upgrades THEN None
    ELSE IF w.gs.upgrade_levels[upgrade_type] >= upgrades[upgrade_type].max_level THEN None
    ELSE (upgrades[upgrade_type].base_cost
          * Pow(upgrades[upgrade_type].cost_multiplier_x10, w.gs.upgrade_levels[upgrade_type]))
         \div Pow(10, w.gs.upgrade_levels[upgrade_type])

\* mutation of apply_upgrade: the stock of crystals is not compared with the cost
apply_upgrade_on_credit(w, upgrade_type) ==
    IF calculate_upgrade_cost(w, upgrade_type) = None
    THEN [w |-> w, ret |-> FALSE]
    ELSE [w |-> [w EXCEPT !.gs.crystals = @ - calculate_upgrade_cost(w, upgrade_type),
                          !.gs.upgrade_levels[upgrade_type] = @ + 1],
          ret |-> TRUE]

\* ProgressionSystem.apply_upgrade: the world after the call and the value returned
apply_upgrade(w, upgrade_type) ==
    IF calculate_upgrade_cost(w, upgrade_type) = None
       \/ w.gs.crystals < calculate_upgrade_cost(w, upgrade_type)
    THEN [w |-> w, ret |-> FALSE]
    ELSE [w |-> [w EXCEPT !.gs.crystals = @ - calculate_upgrade_cost(w, upgrade_type),
                          !.gs.upgrade_levels[upgrade_type] = @ + 1],
          ret |-> TRUE]

\* a call of apply_upgrade, observed: its argument and the value it returned
log_upgrade(r, upgrade_type) ==
    [r.w EXCEPT !.log = [EmptyLog EXCEPT
                           !.upgrade = <<[upgrade_type |-> upgrade_type, ret |-> r.ret]>>]]

\* largest stock of crystals the menu is opened with
MaxCrystals == 1200

\* stocks of crystals: none, one short of the cheapest upgrade, exactly its cost,
\* exactly the cost of the last level of max_speed, and the largest stock
CrystalStock == {0, 59, 60, 171, MaxCrystals}

\* upgrade levels as load_game_state leaves them: every key, each within 0 and
\* its max_level
LoadedLevels ==
    [damage : {0, 4, 5}, fire_rate : {0, 5}, max_speed : {0, 4}, dash_cooldown : {0, 2, 3}]

\* the names the menu can pass, and one that is not an upgrade
UpgradeTypes == DOMAIN upgrades \cup {"shield"}

UpgradeInit ==
    /\ ship = Ship0(Centre, 0, 0, 0)
    /\ \E c \in CrystalStock, l \in LoadedLevels :
          gs = [GameState0(3, 0, 0, NoCombo, Finisher0(0, FALSE))
                  EXCEPT !.crystals = c, !.upgrade_levels = l]
    /\ enemies = <<>>
    /\ asteroids = <<Asteroid0(600, 1)>>
    /\ bullets = <<>>
    /\ enemy_bullets = <<>>
    /\ prev_dash = FALSE
    /\ log = EmptyLog
    /\ save_file = NoFile
    /\ particle_pool = ParticlePool0
    /\ entity = [x |-> 0, vx |-> 0]

\* handle_upgrade_menu_keys, K_RETURN on an entry of the menu
BuyUpgrade ==
    /\ \E upgrade_type \in UpgradeTypes :
          Assign(log_upgrade(apply_upgrade(World, upgrade_type), upgrade_type))
    /\ UNCHANGED prev_dash

UpgradeNext == BuyUpgrade

UpgradeSpec == UpgradeInit /\ [][UpgradeNext]_vars

-----------------------------------------------------------------------------
(* Achievements (progression_system.py).  The calls of check_achievement from  *)
(* the kill, level and pickup handlers are outside the frame model; the        *)
(* function is checked in a specification of its own, over game states in      *)
(* which none, some or all of the conditions hold, together with reset_game.   *)

\* Cfg.achievements: the reward of each achievement
achievements ==
    [first_blood |-> 50, combo_5 |-> 100, combo_10 |-> 200, survivor |-> 300,
     boss_slayer |-> 500, untouchable |-> 200, speed_demon |-> 150,
     crystal_hoarder |-> 250]

\* self.achievement_conditions[achievement_id](ctx)
achievement_condition(w, achievement_id) ==
    CASE achievement_id = "first_blood" -> w.gs.score > 0
      [] achievement_id = "combo_5" -> w.gs.combo.current >= 5
      [] achievement_id = "combo_10" -> w.gs.combo.current >= 10
      [] achievement_id = "survivor" -> w.gs.level >= 10
      [] achievement_id = "boss_slayer" -> w.gs.boss_kills > 0
      [] achievement_id = "untouchable" -> w.gs.level > 1 /\ w.gs.untouchable_level
      [] achievement_id = "speed_demon" -> w.gs.upgrade_levels.max_speed >= 5
      [] achievement_id = "crystal_hoarder" -> w.gs.lifetime_crystals >= 1000
      [] OTHER -> FALSE

\* mutation of check_achievement: the unlocked set is not consulted
check_achievement_again(w, achievement_id) ==
    IF achievement_id \notin DOMAIN achievements THEN [w |-> w, ret |-> FALSE]
    ELSE IF achievement_condition(w, achievement_id)
    THEN [w |-> [w EXCEPT !.gs.achievements_unlocked = @ \cup {achievement_id},
                          !.gs.crystals = @ + achievements[achievement_id],
                          !.gs.lifetime_crystals = @ + achievements[achievement_id]],
          ret |-> TRUE]
    ELSE [w |-> w, ret |-> FALSE]

\* ProgressionSystem.check_achievement: the world after the call and the value
\* returned
check_achievement(w, achievement_id) ==
    IF achievement_id \notin DOMAIN achievements THEN [w |-> w, ret |-> FALSE]
    ELSE IF achievement_id \in w.gs.achievements_unlocked THEN [w |-> w, ret |-> FALSE]
    ELSE IF achievement_condition(w, achievement_id)
    THEN [w |-> [w EXCEPT !.gs.achievements_unlocked = @ \cup {achievement_id},
                          !.gs.crystals = @ + achievements[achievement_id],
                          !.gs.lifetime_crystals = @ + achievements[achievement_id]],
          ret |-> TRUE]
    ELSE [w |-> w, ret |-> FALSE]

\* a call of check_achievement, observed: its argument and the value it returned
log_achievement(r, achievement_id) ==
    [r.w EXCEPT !.log = [EmptyLog EXCEPT
                           !.achievement = <<[id |-> achievement_id, ret |-> r.ret]>>]]

\* game states in which no condition holds, some hold, and all hold
AchievementStates ==
    {GameState0(3, 0, 0, NoCombo, Finisher0(0, FALSE)),
     [GameState0(3, 0, 0, Combo0(5, 100), Finisher0(0, FALSE))
        EXCEPT !.score = 20, !.level = 2, !.untouchable_level = FALSE],
     [GameState0(3, 0, 0, Combo0(10, 100), Finisher0(0, FALSE))
        EXCEPT !.score = 20, !.level = 10, !.boss_kills = 1,
               !.upgrade_levels.max_speed = 5, !.lifetime_crystals = 1000]}

AchievementInit ==
    /\ ship = Ship0(Centre, 0, 0, 0)
    /\ \E g \in AchievementStates, over \in BOOLEAN, loaded \in {{}, {"first_blood"}} :
          gs = [g EXCEPT !.game_over = over, !.achievements_unlocked = loaded]
    /\ enemies = <<>>
    /\ asteroids = <<Asteroid0(600, 1)>>
    /\ bullets = <<>>
    /\ enemy_bullets = <<>>
    /\ prev_dash = FALSE
    /\ log = EmptyLog
    /\ save_file = NoFile
    /\ particle_pool = ParticlePool0
    /\ entity = [x |-> 0, vx |-> 0]

\* check_achievement_wrapper(achievement_id), with a known or an unknown id
CheckAchievement ==
    /\ \E achievement_id \in DOMAIN achievements \cup {"pacifist"} :
          Assign(log_achievement(check_achievement(World, achievement_id), achievement_id))
    /\ UNCHANGED prev_dash

AchievementNext == CheckAchievement \/ ResetGame

AchievementSpec == AchievementInit /\ [][AchievementNext]_vars

-----------------------------------------------------------------------------
(* Persistence (progression_system.py): save_game_state at exit and            *)
(* load_game_state at startup.                                                 *)

\* isinstance(v, (int, float)); bool is a subclass of int
IsNumber(v) == v.t \in {"int", "float", "nan", "bool"}

\* int(v) of a number: a float is truncated toward zero
to_int(v) ==
    IF v.t = "float"
    THEN IF v.n >= 0 THEN v.n \div FP ELSE -((-v.n) \div FP)
    ELSE v.n

\* default_state of load_game_state
default_state ==
    [high_score |-> 0, lifetime_crystals |-> 0, achievements_unlocked |-> {},
     upgrade_levels |-> [k \in DOMAIN upgrades |-> 0], boss_kills |-> 0]

\* ctx.game_state.update(default_state)
update_default(w) ==
    [w EXCEPT !.gs.high_score = 0, !.gs.lifetime_crystals = 0,
              !.gs.achievements_unlocked = {},
              !.gs.upgrade_levels = default_state.upgrade_levels,
              !.gs.boss_kills = 0]

\* ProgressionSystem.validate_save_data
validate_save_data(d) ==
    /\ IsNumber(d.high_score)
    /\ IsNumber(d.lifetime_crystals)
    /\ d.achievements_unlocked.t = "list"
    /\ d.upgrade_levels.t = "dict"
    /\ IsNumber(d.boss_kills)
    /\ \A k \in DOMAIN d.upgrade_levels.items : IsNumber(d.upgrade_levels.items[k].v)

\* list(a set), in one of the orders the iteration can have
RECURSIVE SetToSeq(_)
SetToSeq(S) ==
    IF S = {} THEN <<>>
    ELSE LET x == CHOOSE y \in S : TRUE IN <<x>> \o SetToSeq(S \ {x})

Reverse(q) == [k \in 1..Len(q) |-> q[Len(q) + 1 - k]]

\* mutation of save_data: boss_kills is not written
save_data_no_boss_kills(g, reversed) ==
    [kind |-> "object",
     high_score |-> J("int", g.high_score),
     lifetime_crystals |-> J("int", g.lifetime_crystals),
     achievements_unlocked |->
        JItems("list", [k \in 1..Cardinality(g.achievements_unlocked) |->
                          [t |-> "str", s |-> (IF reversed
                                               THEN Reverse(SetToSeq(g.achievements_unlocked))
                                               ELSE SetToSeq(g.achievements_unlocked))[k]]]),
     upgrade_levels |->
        JItems("dict", [k \in 1..Cardinality(DOMAIN g.upgrade_levels) |->
                          [k |-> SetToSeq(DOMAIN g.upgrade_levels)[k],
                           v |-> J("int", g.upgrade_levels[SetToSeq(DOMAIN g.upgrade_levels)[k]])]]),
     boss_kills |-> J("missing", 0)]

\* save_data of save_game_state, as json.dump writes it
save_data(g, reversed) ==
    [kind |-> "object",
     high_score |-> J("int", g.high_score),
     lifetime_crystals |-> J("int", g.lifetime_crystals),
     achievements_unlocked |->
        JItems("list", [k \in 1..Cardinality(g.achievements_unlocked) |->
                          [t |-> "str", s |-> (IF reversed
                                               THEN Reverse(SetToSeq(g.achievements_unlocked))
                                               ELSE SetToSeq(g.achievements_unlocked))[k]]]),
     upgrade_levels |->
        JItems("dict", [k \in 1..Cardinality(DOMAIN g.upgrade_levels) |->
                          [k |-> SetToSeq(DOMAIN g.upgrade_levels)[k],
                           v |-> J("int", g.upgrade_levels[SetToSeq(DOMAIN g.upgrade_levels)[k]])]]),
     boss_kills |-> J("int", g.boss_kills)]

\* set(ach for ach in loaded_achievements if ach in Cfg.achievements)
loaded_achievements(d) ==
    {d.achievements_unlocked.items[k].s : k \in
        {j \in DOMAIN d.achievements_unlocked.items :
            /\ d.achievements_unlocked.items[j].t = "str"
            /\ d.achievements_unlocked.items[j].s \in DOMAIN achievements}}

\* the loop over loaded_upgrades.items(), from item k on
RECURSIVE validated_upgrades(_, _, _)
validated_upgrades(items, k, acc) ==
    IF k > Len(items) THEN acc
    ELSE IF items[k].k \in DOMAIN upgrades
    THEN validated_upgrades(items, k + 1,
            [acc EXCEPT ![items[k].k] =
                Max(0, Min(to_int(items[k].v), upgrades[items[k].k].max_level))])
    ELSE validated_upgrades(items, k + 1, acc)

\* the conversion of a field of the file raises: int() of NaN or of an
\* infinity, the membership test of an unhashable element
raises(d, field) ==
    CASE field = "achievements_unlocked" ->
           \E k \in DOMAIN d.achievements_unlocked.items :
               d.achievements_unlocked.items[k].t = "list"
      [] field = "upgrade_levels" ->
           \E k \in DOMAIN d.upgrade_levels.items :
               /\ d.upgrade_levels.items[k].k \in DOMAIN upgrades
               /\ d.upgrade_levels.items[k].v.t = "nan"
      [] OTHER -> d[field].t = "nan"

\* the assignments of load_game_state after the validation, one field after
\* the other, up to the first conversion that raises
load_fields(w, d) ==
    IF raises(d, "high_score") THEN [w |-> w, raised |-> TRUE]
    ELSE IF raises(d, "lifetime_crystals")
    THEN [w |-> [w EXCEPT !.gs.high_score = Max(0, to_int(d.high_score))], raised |-> TRUE]
    ELSE IF raises(d, "achievements_unlocked")
    THEN [w |-> [w EXCEPT !.gs.high_score = Max(0, to_int(d.high_score)),
                          !.gs.lifetime_crystals = Max(0, to_int(d.lifetime_crystals))],
          raised |-> TRUE]
    ELSE IF raises(d, "upgrade_levels")
    THEN [w |-> [w EXCEPT !.gs.high_score = Max(0, to_int(d.high_score)),
                          !.gs.lifetime_crystals = Max(0, to_int(d.lifetime_crystals)),
                          !.gs.achievements_unlocked = loaded_achievements(d)],
          raised |-> TRUE]
    ELSE IF raises(d, "boss_kills")
    THEN [w |-> [w EXCEPT !.gs.high_score = Max(0, to_int(d.high_score)),
                          !.gs.lifetime_crystals = Max(0, to_int(d.lifetime_crystals)),
                          !.gs.achievements_unlocked = loaded_achievements(d),
                          !.gs.upgrade_levels =
                              validated_upgrades(d.upgrade_levels.items, 1,
                                                 default_state.upgrade_levels)],
          raised |-> TRUE]
    ELSE [w |-> [w EXCEPT !.gs.high_score = Max(0, to_int(d.high_score)),
                          !.gs.lifetime_crystals = Max(0, to_int(d.lifetime_crystals)),
                          !.gs.achievements_unlocked = loaded_achievements(d),
                          !.gs.upgrade_levels =
                              validated_upgrades(d.upgrade_levels.items, 1,
                                                 default_state.upgrade_levels),
                          !.gs.boss_kills = Max(0, to_int(d.boss_kills))],
          raised |-> FALSE]

\* mutation of load_game_state: the except clause restores nothing
load_game_state_no_restore(w, d) ==
    IF d.kind # "object" \/ ~validate_save_data(d)
    THEN [w |-> update_default(w), ret |-> FALSE]
    ELSE [w |-> load_fields(w, d).w, ret |-> ~load_fields(w, d).raised]

\* ProgressionSystem.load_game_state: the world after the call and the value
\* returned
load_game_state(w, d) ==
    IF d.kind # "object" \/ ~validate_save_data(d)
    THEN [w |-> update_default(w), ret |-> FALSE]
    ELSE IF load_fields(w, d).raised
    THEN [w |-> update_default(load_fields(w, d).w), ret |-> FALSE]
    ELSE [w |-> load_fields(w, d).w, ret |-> TRUE]

\* save files: no file, a file json.load cannot decode, and objects with the
\* fields present or missing, of the right or of another type,
\* with values inside and outside their ranges
Files ==
    [kind : {"object"},
     high_score : {J("int", 120), J("int", -5), J("float", 125), J("nan", 0),
                   J("str", 0), J("missing", 0)},
     lifetime_crystals : {J("int", 1000), J("float", -27), J("bool", 1), J("missing", 0)},
     achievements_unlocked :
        {JItems("list", <<[t |-> "str", s |-> "first_blood"], [t |-> "str", s |-> "combo_5"]>>),
         JItems("list", <<[t |-> "str", s |-> "pacifist"], [t |-> "str", s |-> "survivor"],
                          [t |-> "int", s |-> ""], [t |-> "str", s |-> "survivor"]>>),
         JItems("list", <<[t |-> "str", s |-> "first_blood"], [t |-> "list", s |-> ""]>>),
         JItems("str", <<>>),
         JItems("missing", <<>>)},
     upgrade_levels :
        {JItems("dict", <<[k |-> "damage", v |-> J("int", 2)],
                          [k |-> "max_speed", v |-> J("int", 5)]>>),
         JItems("dict", <<[k |-> "damage", v |-> J("int", 9)],
                          [k |-> "fire_rate", v |-> J("int", -1)],
                          [k |-> "max_speed", v |-> J("float", 27)],
                          [k |-> "shield", v |-> J("nan", 0)]>>),
         JItems("dict", <<[k |-> "damage", v |-> J("str", 0)]>>),
         JItems("dict", <<[k |-> "damage", v |-> J("int", 1)],
                          [k |-> "dash_cooldown", v |-> J("nan", 0)]>>),
         JItems("list", <<>>)},
     boss_kills : {J("int", 3), J("nan", 0), J("missing", 0)}]
    \cup {NoFile, [NoFile EXCEPT !.kind = "garbage"]}

\* g_game_state as the module creates it, and at the end of a run in which
\* the player scored, unlocked achievements, bought upgrades and killed a boss
PersistStates ==
    {GameState0(3, 0, 0, NoCombo, Finisher0(0, FALSE)),
     [GameState0(3, 0, 0, NoCombo, Finisher0(0, FALSE))
        EXCEPT !.score = 20, !.high_score = 120, !.lifetime_crystals = 360,
               !.crystals = 50, !.achievements_unlocked = {"first_blood", "combo_5", "combo_10"},
               !.upgrade_levels = [damage |-> 1, fire_rate |-> 0, max_speed |-> 5,
                                   dash_cooldown |-> 3],
               !.boss_kills = 2]}

PersistInit ==
    /\ ship = Ship0(Centre, 0, 0, 0)
    /\ gs \in PersistStates
    /\ enemies = <<>>
    /\ asteroids = <<Asteroid0(600, 1)>>
    /\ bullets = <<>>
    /\ enemy_bullets = <<>>
    /\ prev_dash = FALSE
    /\ log = EmptyLog
    /\ save_file \in Files
    /\ particle_pool = ParticlePool0
    /\ entity = [x |-> 0, vx |-> 0]

\* the world of a new process, before load_game_state_wrapper()
FreshWorld == [World EXCEPT !.gs = GameState0(3, 0, 0, NoCombo, Finisher0(0, FALSE))]

\* a call of load_game_state, observed: the value it returned
log_load(r) ==
    [r.w EXCEPT !.log = [EmptyLog EXCEPT !.persist = <<[op |-> "load", ret |-> r.ret]>>]]

\* program start: load_game_state_wrapper() on the fresh g_game_state
LoadGame ==
    /\ Assign(log_load(load_game_state(FreshWorld, save_file)))
    /\ UNCHANGED prev_dash

\* program exit: save_game_state_wrapper()
SaveGame ==
    /\ \E reversed \in BOOLEAN : save_file' = save_data(gs, reversed)
    /\ log' = [EmptyLog EXCEPT !.persist = <<[op |-> "save", ret |-> TRUE]>>]
    /\ UNCHANGED <<ship, gs, enemies, asteroids, bullets, enemy_bullets, prev_dash,
                   particle_pool, entity>>

PersistNext == LoadGame \/ SaveGame

PersistSpec == PersistInit /\ [][PersistNext]_vars

-----------------------------------------------------------------------------
(* ParticlePool and create_particles on their own.  The value get() returns is *)
(* the set holding the slot handed out, empty for None.                        *)

\* mutation of ParticlePool_get: the slot is not popped from the inactive list
ParticlePool_get_no_pop(p) ==
    IF p.inactive_indices # <<>>
    THEN [p |-> [p EXCEPT
                   !.pool[p.inactive_indices[Len(p.inactive_indices)]].active = TRUE,
                   !.active_indices = Append(@, p.inactive_indices[Len(p.inactive_indices)])],
          ret |-> {p.inactive_indices[Len(p.inactive_indices)]}]
    ELSE [p |-> p, ret |-> {}]

\* ParticlePool.get: the pool after the call and the particle returned
ParticlePool_get(p) ==
    IF p.inactive_indices # <<>>
    THEN [p |-> [p EXCEPT
                   !.inactive_indices = SubSeq(@, 1, Len(@) - 1),
                   !.pool[p.inactive_indices[Len(p.inactive_indices)]].active = TRUE,
                   !.active_indices = Append(@, p.inactive_indices[Len(p.inactive_indices)])],
          ret |-> {p.inactive_indices[Len(p.inactive_indices)]}]
    ELSE [p |-> p, ret |-> {}]

\* the body of `if particle:` in create_particles: the fields of the particle
\* are written, nothing is done for None
set_particle(r, life) ==
    IF r.ret = {} THEN r.p
    ELSE [r.p EXCEPT !.pool[CHOOSE i \in r.ret : TRUE].life = life]

\* the loop of create_particles: the pool after it and the values its calls
\* of get() returned
RECURSIVE create_particles(_, _, _, _)
create_particles(p, count, life, gets) ==
    IF count = 0 THEN [p |-> p, gets |-> gets]
    ELSE create_particles(set_particle(ParticlePool_get(p), life), count - 1, life,
                          Append(gets, ParticlePool_get(p).ret))

\* mutation of update_particles: an expired particle keeps its active flag
RECURSIVE update_particles_keeps_flag(_, _, _, _)
update_particles_keeps_flag(p, k, new_active, time_scale) ==
    IF k > Len(p.active_indices) THEN [p EXCEPT !.active_indices = new_active]
    ELSE IF p.pool[p.active_indices[k]].life - time_scale > 0
    THEN update_particles_keeps_flag(
            [p EXCEPT !.pool[p.active_indices[k]].life = @ - time_scale],
            k + 1, Append(new_active, p.active_indices[k]), time_scale)
    ELSE update_particles_keeps_flag(
            [p EXCEPT !.pool[p.active_indices[k]].life = @ - time_scale,
                      !.inactive_indices = Append(@, p.active_indices[k])],
            k + 1, new_active, time_scale)

\* the loop of ParticlePool.update over active_indices, from position k on
RECURSIVE update_particles(_, _, _, _)
update_particles(p, k, new_active, time_scale) ==
    IF k > Len(p.active_indices) THEN [p EXCEPT !.active_indices = new_active]
    ELSE IF p.pool[p.active_indices[k]].life - time_scale > 0
    THEN update_particles([p EXCEPT !.pool[p.active_indices[k]].life = @ - time_scale],
                          k + 1, Append(new_active, p.active_indices[k]), time_scale)
    ELSE update_particles([p EXCEPT !.pool[p.active_indices[k]].life = @ - time_scale,
                                    !.pool[p.active_indices[k]].active = FALSE,
                                    !.inactive_indices = Append(@, p.active_indices[k])],
                          k + 1, new_active, time_scale)

\* ParticlePool.clear
ParticlePool_clear(p) ==
    [pool |-> [i \in DOMAIN p.pool |-> [p.pool[i] EXCEPT !.active = FALSE]],
     active_indices |-> <<>>,
     inactive_indices |-> [k \in 1..Cardinality(DOMAIN p.pool) |-> k - 1]]

\* the game objects of the particle specification do not change
ParticleFrame == UNCHANGED <<ship, gs, enemies, asteroids, bullets, enemy_bullets,
                             prev_dash, save_file, entity>>

ParticleInit ==
    /\ ship = Ship0(Centre, 0, 0, 0)
    /\ gs = GameState0(3, 0, 0, NoCombo, Finisher0(0, FALSE))
    /\ enemies = <<>>
    /\ asteroids = <<Asteroid0(600, 1)>>
    /\ bullets = <<>>
    /\ enemy_bullets = <<>>
    /\ prev_dash = FALSE
    /\ log = EmptyLog
    /\ save_file = NoFile
    /\ particle_pool = ParticlePool0
    /\ entity = [x |-> 0, vx |-> 0]

\* create_particles(x, y, config) with a count and a life
CreateParticles ==
    /\ \E count \in 1..2, life \in {1 * FP, 2 * FP} :
          /\ particle_pool' = create_particles(particle_pool, count, life, <<>>).p
          /\ log' = [EmptyLog EXCEPT
                       !.gets = create_particles(particle_pool, count, life, <<>>).gets]
    /\ ParticleFrame

\* g_particle_pool.update(time_scale, g_ship), at full speed and in slow motion
UpdateParticles ==
    /\ \E time_scale \in {FP, finisher_lock_on_scale} :
          particle_pool' = update_particles(particle_pool, 1, <<>>, time_scale)
    /\ log' = [EmptyLog EXCEPT !.calls = <<"ParticlePool.update">>]
    /\ ParticleFrame

\* g_particle_pool.clear()
ClearParticles ==
    /\ particle_pool' = ParticlePool_clear(particle_pool)
    /\ log' = [EmptyLog EXCEPT !.calls = <<"ParticlePool.clear">>]
    /\ ParticleFrame

ParticleNext == CreateParticles \/ UpdateParticles \/ ClearParticles

ParticleSpec == ParticleInit /\ [][ParticleNext]_vars

-----------------------------------------------------------------------------
(* update_entity_physics and wrap_position in floating point.  The frame model *)
(* keeps positions on a grid of 1/25 px, where the sums and the remainder are  *)
(* exact; Python computes them on floats, which round every result to the      *)
(* nearest value with a fixed number of significant bits.  Here a float is an  *)
(* integer number of pixels kept to Precision significant bits (53 in the      *)
(* program, where the same rounding happens at 2^-44 px instead of 32 px).     *)

\* significant bits of a float
Precision == 5

\* the spacing of the floats around a magnitude a: 1 below 2^Precision,
\* doubling with every power of two above
RECURSIVE Spacing(_, _, _)
Spacing(a, limit, step) ==
    IF a < limit THEN step ELSE Spacing(a, 2 * limit, 2 * step)

\* the magnitude a rounded to a multiple of q, to the nearest and to the even
\* multiple on a tie
RoundTo(a, q) ==
    IF 2 * (a % q) > q \/ (2 * (a % q) = q /\ (a \div q) % 2 = 1)
    THEN (a \div q) * q + q
    ELSE (a \div q) * q

\* the float nearest to the exact result n of an operation
RoundF(n) ==
    IF n < 0 THEN -RoundTo(-n, Spacing(-n, Pow(2, Precision), 1))
    ELSE RoundTo(n, Spacing(n, Pow(2, Precision), 1))

\* x % y of Python floats, y > 0: the exact fmod, which has the sign of x,
\* and y added to it, with rounding, when it is negative
float_mod(x, y) ==
    IF x < 0 /\ (-x) % y # 0 THEN RoundF(y - ((-x) % y))
    ELSE IF x < 0 THEN 0
    ELSE x % y

\* wrap_position: entity.x = entity.x % g_screen_width
wrap_position(e) == [e EXCEPT !.x = float_mod(e.x, RoundF(screen_width))]

\* update_entity_physics with wrap on floats: entity.x += entity.vx *
\* time_scale, then wrap_position(entity)
update_entity_physics_float(e, time_scale) ==
    wrap_position([e EXCEPT !.x = RoundF(e.x + RoundF((e.vx * time_scale) \div FP))])

\* positions on the screen: the floats from 0 up to, not including, the width
WrapPositions == {x \in 0..(screen_width - 1) : RoundF(x) = x}

\* velocities in either direction, slower and faster than a screen per frame;
\* they are even, so that half of one is a whole number of pixels
WrapVelocities == {-1600, -832, -34, -2, 0, 2, 34, 832, 1600}

WrapInit ==
    /\ ship = Ship0(Centre, 0, 0, 0)
    /\ gs = GameState0(3, 0, 0, NoCombo, Finisher0(0, FALSE))
    /\ enemies = <<>>
    /\ asteroids = <<Asteroid0(600, 1)>>
    /\ bullets = <<>>
    /\ enemy_bullets = <<>>
    /\ prev_dash = FALSE
    /\ log = EmptyLog
    /\ save_file = NoFile
    /\ particle_pool = ParticlePool0
    /\ entity \in [x : WrapPositions, vx : WrapVelocities]

\* update_entity_physics(entity, {"wrap": True}) at full speed and in slow
\* motion
UpdateEntityPhysics ==
    /\ \E time_scale \in {FP, finisher_lock_on_scale} :
          entity' = update_entity_physics_float(entity, time_scale)
    /\ log' = EmptyLog
    /\ UNCHANGED <<ship, gs, enemies, asteroids, bullets, enemy_bullets, prev_dash,
                   save_file, particle_pool>>

WrapNext == UpdateEntityPhysics

WrapSpec == WrapInit /\ [][WrapNext]_vars

-----------------------------------------------------------------------------
(* create_enemy() on its own: every sequence of spawn points that the random   *)
(* calls of its attempts can return, for ships at several distances from the   *)
(* two edge points of the line.                                                *)

\* every sequence of draws of the attempts of one call
SpawnDraws == [1..enemy_max_spawn_attempts -> SpawnX]

SpawnInit ==
    /\ ship \in {Ship0(x * PX, 0, 0, 0) : x \in {150, 400, 600, 700}}
    /\ gs = GameState0(3, 0, 0, NoCombo, Finisher0(0, FALSE))
    /\ enemies = <<>>
    /\ asteroids = <<Asteroid0(600, 1)>>
    /\ bullets = <<>>
    /\ enemy_bullets = <<>>
    /\ prev_dash = FALSE
    /\ log = EmptyLog
    /\ save_file = NoFile
    /\ particle_pool = ParticlePool0
    /\ entity = [x |-> 0, vx |-> 0]

\* g_enemies.append(create_enemy()) with the list below enemy_max_count
SpawnEnemy ==
    /\ Len(enemies) < enemy_max_count
    /\ \E draws \in SpawnDraws :
          Assign([World EXCEPT !.enemies = Append(@, create_enemy(World, draws, 0)),
                               !.log = [EmptyLog EXCEPT !.draws = draws]])
    /\ UNCHANGED prev_dash

SpawnNext == SpawnEnemy

SpawnSpec == SpawnInit /\ [][SpawnNext]_vars

-----------------------------------------------------------------------------
(* Finisher state machine *)

\* C1: while a finisher is executing, a step changes the phase only to its
\* successor in LOCK_ON -> PRE_IMPACT -> IMPACT -> POST_IMPACT -> IDLE, and the
\* phase of a finisher that is not executing changes only from IDLE to LOCK_ON,
\* whatever kills, target losses, level changes and ship resets happen between.
C1_PhaseOrder ==
    [][gs.finisher.phase' # gs.finisher.phase =>
          IF gs.finisher.executing
          THEN <<gs.finisher.phase, gs.finisher.phase'>> \in
                  {<<"lock_on", "pre_impact">>, <<"pre_impact", "impact">>,
                   <<"impact", "post_impact">>, <<"post_impact", "idle">>}
          ELSE gs.finisher.phase = "idle" /\ gs.finisher.phase' = "lock_on"]_vars

\* a finisher in its last phase whose ship was reset by a level change on the way
C1_Witness ==
    /\ gs.finisher.phase = "post_impact"
    /\ ship.respawning > 0
    /\ enemies = <<>>

\* C2: from the frame that triggers it, every frame of an executing finisher
\* is one update_finisher tick; the finisher is still executing before the
\* 126th tick and is IDLE with executing = false after it, never earlier and
\* never later.
C2_RunsToCompletion ==
    [][/\ (~gs.finisher.executing /\ gs.finisher.executing') =>
             (log.fticks' = 1 /\ gs.finisher.phase' = "lock_on")
       /\ gs.finisher.executing =>
             /\ log.fticks' = log.fticks + 1
             /\ gs.finisher.executing' <=> (log.fticks' < total_finisher_frames)
             /\ ~gs.finisher.executing' => gs.finisher.phase' = "idle"]_vars

\* a finisher that has completed after its target was lost
C2_Witness ==
    /\ ~gs.finisher.executing
    /\ gs.finisher.phase = "idle"
    /\ log.fticks = total_finisher_frames
    /\ gs.score = 0

\* C3: a step takes the finisher out of IDLE only into LOCK_ON and only from a
\* state with ready, not executing, a rising edge of the dash input, dash
\* cooldown <= 0, the ship neither respawning nor dashing, and an enemy found
\* by check_finisher_collision on the dash path.
C3_EntryGuard ==
    [][(gs.finisher.phase = "idle" /\ (gs.finisher.phase' # "idle" \/ log.started')) =>
          /\ gs.finisher.phase' = "lock_on"
          /\ gs.finisher.ready
          /\ ~gs.finisher.executing
          /\ prev_dash' /\ ~prev_dash
          /\ gs.dash_cooldown <= 0
          /\ ship.respawning = 0
          /\ ship.dashing = 0
          /\ check_finisher_collision(World, ship.angle) # None]_vars

\* the frame that triggered a finisher, some frames into the game
C3_Witness ==
    /\ log.started
    /\ gs.finisher.phase = "lock_on"
    /\ gs.frame_count > 1

\* C4: the frame that triggers a finisher leaves meter and ready as they were,
\* and the frame in which LOCK_ON ends ends with phase PRE_IMPACT,
\* ship.dashing > 0, meter 0 and ready false.
C4_ResetAtPreImpact ==
    [][/\ (~gs.finisher.executing /\ gs.finisher.executing') =>
             /\ gs.finisher.meter' = gs.finisher.meter
             /\ gs.finisher.ready' = gs.finisher.ready
       /\ (gs.finisher.phase = "lock_on" /\ gs.finisher.phase' # "lock_on") =>
             /\ gs.finisher.phase' = "pre_impact"
             /\ ship.dashing' > 0
             /\ gs.finisher.meter' = 0
             /\ ~gs.finisher.ready']_vars

\* C5: in the IMPACT phase the shockwave radius is the interpolation between
\* its initial value and the maximum at the phase's progress, and by the end of
\* the phase apply_shockwave_damage has been applied twice.
C5_ShockwaveDamage ==
    /\ gs.finisher.phase = "impact" =>
          gs.finisher.shockwave_radius =
             10 * PX + ((finisher_shockwave_radius * PX - 10 * PX)
                        * (finisher_impact_time - gs.finisher.execution_timer))
                       \div finisher_impact_time
    /\ gs.finisher.phase = "post_impact" => log.shock_calls = 2

-----------------------------------------------------------------------------
(* Ship damage *)

\* C6: a frame resolves at most one hit against the ship, and the ship ends
\* the frame with at most one life less than before the first hit.
C6_OneHitPerFrame ==
    /\ Len(log.calls) <= 1
    /\ log.calls # <<>> => gs.lives >= log.calls[1].lives - 1

\* C7: every hit resolved against the ship finds ship.invulnerable = 0 and
\* ship.dashing = 0.
C7_HitOnlyWhenVulnerable ==
    \A i \in DOMAIN log.calls :
        log.calls[i].ship.invulnerable = 0 /\ log.calls[i].ship.dashing = 0

\* C8: a frame in which the ship took a hit with 1 life and no shield ends
\* with lives = 0 and game_over, and no later frame changes lives while
\* game_over is true.
C8_LastLife ==
    [][/\ (\E i \in DOMAIN log.calls' :
              log.calls[i]'.lives = 1 /\ log.calls[i]'.ship.shield_active = 0)
          => (gs.lives' = 0 /\ gs.game_over')
       /\ (gs.game_over /\ gs.game_over') => gs.lives' = gs.lives]_vars

\* C9: a call of handle_ship_damage with the shield timer > 0 sets the timer to
\* 0 and changes neither the lives nor anything else of the ship (no respawn),
\* and a call that takes a life found the shield timer at 0.
C9_ShieldAbsorbs ==
    \A i \in DOMAIN log.calls :
        LET c == log.calls[i] IN
        /\ c.ship.shield_active > 0 =>
              /\ c.ship_after = [c.ship EXCEPT !.shield_active = 0]
              /\ c.lives_after = c.lives
        /\ c.lives_after < c.lives => c.ship.shield_active = 0

\* a frame in which the shield took a hit
C9_Witness ==
    \E i \in DOMAIN log.calls : log.calls[i].ship.shield_active > 0

-----------------------------------------------------------------------------
(* Bullet collisions *)

\* C10: in a handle_bullet_collisions pass no bullet index resolves two hits,
\* a bullet that hit an asteroid does not enter the loop over the enemies, and
\* the bullet list after the pass is the list before it without the bullets
\* that hit something.
C10_BulletSingleUse ==
    LET HitBullets == {log.bhits[k].bullet : k \in DOMAIN log.bhits} IN
    log.bullet_pass =>
        /\ \A k, m \in DOMAIN log.bhits :
              log.bhits[k].bullet = log.bhits[m].bullet => k = m
        /\ \A k \in DOMAIN log.bhits :
              log.bhits[k].kind = "asteroid" => log.bhits[k].bullet \notin log.tested
        /\ log.bullets_after = Compact(log.bullets_before, HitBullets)
        /\ Len(log.bullets_after) = Len(log.bullets_before) - Cardinality(HitBullets)

\* a pass in which one bullet hit an asteroid next to an enemy it would also
\* have hit, and another bullet hit the enemy
C10_Witness ==
    /\ log.bullet_pass
    /\ \E k, m \in DOMAIN log.bhits :
          /\ log.bhits[k].kind = "asteroid"
          /\ log.bhits[m].kind = "enemy"
          /\ log.bullets_before[log.bhits[k].bullet] = log.bullets_before[log.bhits[m].bullet]

\* hit records of the frame's bullet pass on plain (non-boss) asteroids
PlainAsteroidHits ==
    {k \in DOMAIN log.bhits :
       /\ log.bhits[k].kind = "asteroid"
       /\ ~log.asteroids_before[log.bhits[k].index].is_boss}

\* the pass resolved hits on plain asteroids only
OnlyPlainAsteroidHits == PlainAsteroidHits = DOMAIN log.bhits

RECURSIVE pass_score(_)
\* score of the first k hits of a pass of plain asteroid hits: hit n is paid with
\* the combo that the n - 1 hits before it have built
pass_score(k) ==
    IF k = 0 THEN 0
    ELSE pass_score(k - 1)
         + (asteroid_scores[log.asteroids_before[log.bhits[k].index].size]
            * (10 + log.combo_before + k - 1)) \div 10

\* bullets of the pass that overlap asteroid j as the pass begins
BulletsOver(j) ==
    {i \in DOMAIN log.bullets_before :
       check_collision(log.bullets_before[i].x, log.asteroids_before[j].x,
                       bullet_radius * PX,
                       asteroid_radius(log.asteroids_before[j])
                         + asteroid_collision_margin * PX)}

\* C11: in a bullet pass a plain asteroid is hit by at most one bullet, however
\* many bullets overlap it: its hit is resolved once, and in a pass of plain
\* asteroid hits the combo grows by one and the score by one payment per hit
\* asteroid, the list loses each hit asteroid once and gains two children per
\* hit asteroid of size above 1, and one bullet is consumed per hit asteroid.
C11_OneHitPerAsteroid ==
    log.bullet_pass =>
      /\ \A k1, k2 \in PlainAsteroidHits :
            log.bhits[k1].index = log.bhits[k2].index => k1 = k2
      /\ OnlyPlainAsteroidHits =>
            /\ log.combo_after = log.combo_before + Len(log.bhits)
            /\ log.score_after = log.score_before + pass_score(Len(log.bhits))
            /\ Len(log.bullets_after) = Len(log.bullets_before) - Len(log.bhits)
            /\ Len(log.asteroids_after)
                 = Len(log.asteroids_before) - Len(log.bhits)
                   + asteroid_split_count
                     * Cardinality({k \in DOMAIN log.bhits :
                         log.asteroids_before[log.bhits[k].index].size > 1})

\* two bullets overlap the same plain asteroid when the pass begins, and the pass
\* resolved exactly one hit, on that asteroid
C11_Witness ==
    /\ log.bullet_pass
    /\ Len(log.bhits) = 1
    /\ OnlyPlainAsteroidHits
    /\ Cardinality(BulletsOver(log.bhits[1].index)) >= 2

\* position and size of the asteroids of a list
PosSize(list) == [k \in DOMAIN list |-> <<list[k].x, list[k].size>>]

RECURSIVE pass_children(_)
\* position and size of the children that the first k hits of a pass of plain
\* asteroid hits must add: two of size S - 1 where the hit asteroid has size S > 1
pass_children(k) ==
    IF k = 0 THEN <<>>
    ELSE pass_children(k - 1)
         \o (IF log.asteroids_before[log.bhits[k].index].size > 1
             THEN [n \in 1..2 |->
                     <<log.asteroids_before[log.bhits[k].index].x,
                       log.asteroids_before[log.bhits[k].index].size - 1>>]
             ELSE <<>>)

\* C12: after a bullet pass of plain asteroid hits the list is the old list
\* without the hit asteroids, followed by two children of size S - 1 at the
\* position of each hit asteroid of size S > 1 and none for size 1; and every
\* asteroid of the list has a size in 1..3.
C12_HitRemovesAndSplits ==
    /\ \A k \in DOMAIN asteroids : asteroids[k].size \in {1, 2, 3}
    /\ (log.bullet_pass /\ OnlyPlainAsteroidHits) =>
          PosSize(log.asteroids_after)
            = PosSize(Compact(log.asteroids_before,
                              {log.bhits[k].index : k \in DOMAIN log.bhits}))
              \o pass_children(Len(log.bhits))

\* a pass hit a plain asteroid of size above 1 and its children are in the list
C12_Witness ==
    /\ log.bullet_pass
    /\ OnlyPlainAsteroidHits
    /\ \E k \in DOMAIN log.bhits :
          /\ log.asteroids_before[log.bhits[k].index].size > 1
          /\ Cardinality({n \in DOMAIN asteroids :
                 /\ asteroids[n].x = log.asteroids_before[log.bhits[k].index].x
                 /\ asteroids[n].size
                      = log.asteroids_before[log.bhits[k].index].size - 1}) >= 2

\* C13: the finisher meter stays within 0 .. 100 in every reachable state.
C13_MeterInRange ==
    /\ gs.finisher.meter >= 0
    /\ gs.finisher.meter <= 100 * MeterFP

\* a kill of this frame found the meter less than one base fill below 100 and
\* left it at 100
C13_Witness ==
    \E k \in DOMAIN log.combos :
        /\ ~log.combos[k].ready
        /\ log.combos[k].meter + combo_fill_rates.base * MeterFP > 100 * MeterFP
        /\ log.combos[k].meter_after = 100 * MeterFP
        /\ gs.finisher.meter = 100 * MeterFP

\* C14: the finisher is ready exactly when the meter is at 100.
C14_ReadyIffFull == gs.finisher.ready <=> (gs.finisher.meter = 100 * MeterFP)

\* the meter is less than one frame of decay below 100, where only the passive
\* decay of a full meter can put it, and the ready flag is down
C14_Witness ==
    /\ gs.finisher.meter < 100 * MeterFP
    /\ gs.finisher.meter >= 100 * MeterFP - (2 * MeterFP) \div fps
    /\ ~gs.finisher.ready
    /\ gs.combo.current = 0

\* ids of the enemies of a list
EnemyIds(list) == {list[k].id : k \in DOMAIN list}

\* C15: the PRE_IMPACT -> IMPACT step always ends in phase IMPACT.  When the
\* target is no longer in the enemy list it pays no score, removes no enemy,
\* drops no crystal and leaves the dash cooldown and the combo timer as they
\* were; when the target is in the list it removes that enemy, and only it,
\* pays finisher_score once and drops one crystal.
C15_TargetRevalidated ==
    \A k \in DOMAIN log.impact :
      LET r == log.impact[k] IN
        /\ r.phase_after = "impact"
        /\ r.target \notin EnemyIds(r.enemies) =>
              /\ r.score_after = r.score
              /\ r.enemies_after = r.enemies
              /\ r.drops = 0
              /\ r.dash_cooldown_after = r.dash_cooldown
              /\ r.timer_after = r.timer
        /\ r.target \in EnemyIds(r.enemies) =>
              /\ r.score_after = r.score + finisher_score
              /\ Len(r.enemies_after) = Len(r.enemies) - 1
              /\ EnemyIds(r.enemies_after) = EnemyIds(r.enemies) \ {r.target}
              /\ r.drops = 1

\* the PRE_IMPACT -> IMPACT step ran in this frame with a target that had left
\* the enemy list since the lock-on
C15_Witness ==
    \E k \in DOMAIN log.impact :
        /\ log.impact[k].target # None
        /\ log.impact[k].target \notin EnemyIds(log.impact[k].enemies)
        /\ gs.finisher.phase = "impact"

\* C16: every call of add_combo raises combo.current by exactly 1 and sets
\* combo.timer to the full combo_timeout.
C16_KillExtendsCombo ==
    \A k \in DOMAIN log.combos :
        /\ log.combos[k].current_after = log.combos[k].current + 1
        /\ log.combos[k].timer_after = combo_timeout * FP

\* a kill of this frame fell into a running combo whose timer was partly used
C16_Witness ==
    \E k \in DOMAIN log.combos :
        /\ log.combos[k].current >= 1
        /\ log.combos[k].timer > 0
        /\ log.combos[k].timer < combo_timeout * FP
        /\ log.combos[k].current_after = log.combos[k].current + 1

\* C17: a frame in which the combo timer runs down to 0 and no kill is made
\* ends with combo.current = 0 and combo.max at least the value current had
\* before the frame; and while the game runs combo.max never decreases.
C17_ComboExpiry ==
    [][/\ (gs.combo.timer > 0 /\ gs'.combo.timer = 0 /\ log'.combos = <<>>) =>
            /\ gs'.combo.current = 0
            /\ gs'.combo.max >= gs.combo.current
       /\ ~gs.game_over => gs'.combo.max >= gs.combo.max]_vars

\* the timer of a combo of 8 ran out in this frame, no kill was made in it, and
\* the combo is recorded as the maximum
C17_Witness ==
    /\ log.expired
    /\ log.combos = <<>>
    /\ gs.combo.current = 0
    /\ gs.combo.timer = 0
    /\ gs.combo.max >= 8

\* C18: the enemy list never holds more than enemy_max_count enemies, neither
\* between frames nor after any spawn roll in the middle of a bullet pass.
C18_EnemyCap ==
    /\ Len(enemies) <= enemy_max_count
    /\ \A k \in DOMAIN log.rolled :
          /\ log.rolled[k].count <= enemy_max_count
          /\ log.rolled[k].count_after <= enemy_max_count

\* one bullet pass made two spawn rolls whose draws both succeeded; the first
\* filled the list and the second found it full and added nothing
C18_Witness ==
    /\ Len(log.rolled) >= 2
    /\ log.rolled[1].draw /\ log.rolled[1].count_after = enemy_max_count
    /\ log.rolled[1].count < enemy_max_count
    /\ log.rolled[2].draw /\ log.rolled[2].count = enemy_max_count
    /\ log.rolled[2].count_after = enemy_max_count

\* distance on the line between the ship and the enemy at index i
ShipDistance(i) ==
    IF ship.x >= enemies[i].x THEN ship.x - enemies[i].x ELSE enemies[i].x - ship.x

\* the enemy at index i is strictly inside the fire band
InFireBand(i) ==
    /\ enemy_min_fire_distance * PX < ShipDistance(i)
    /\ ShipDistance(i) < enemy_max_fire_distance * PX

\* C19: every enemy that fires in a frame was, as the frame began, farther from
\* the ship than enemy_min_fire_distance and nearer than
\* enemy_max_fire_distance; an enemy outside that band does not fire, whatever
\* its cooldown, and every enemy bullet added in the frame is such a shot.
C19_FireBand ==
    [][/\ \A k \in DOMAIN log'.shots :
            \E i \in DOMAIN enemies : enemies[i].id = log'.shots[k] /\ InFireBand(i)
       /\ Len(enemy_bullets') <= Len(enemy_bullets) + Len(log'.shots)]_vars

\* an enemy beyond enemy_max_fire_distance and an enemy inside
\* enemy_min_fire_distance have both had their cooldown at 0 for ten frames (it
\* starts at enemy_fire_rate = 90 frames), and no enemy bullet has been fired
C19_Witness ==
    /\ gs.frame_count >= enemy_fire_rate + 10
    /\ \E i \in DOMAIN enemies :
          enemies[i].fire_cooldown = 0 /\ ShipDistance(i) >= enemy_max_fire_distance * PX
    /\ \E i \in DOMAIN enemies :
          enemies[i].fire_cooldown = 0 /\ ShipDistance(i) <= enemy_min_fire_distance * PX
    /\ log.shots = <<>>
    /\ enemy_bullets = <<>>

\* the call can pay: a known upgrade below its max level and enough crystals
CanBuy(upgrade_type) ==
    /\ upgrade_type \in DOMAIN upgrades
    /\ gs.upgrade_levels[upgrade_type] < upgrades[upgrade_type].max_level
    /\ gs.crystals >= calculate_upgrade_cost(World, upgrade_type)

\* C20: a call apply_upgrade(u) with u a known upgrade below its max level and
\* crystals >= cost returns true, takes exactly the cost from crystals and
\* raises level[u] by 1, leaving the other levels alone; any other call returns
\* false and changes nothing; and crystals stays >= 0 and every level within
\* 0 .. max_level.
C20_UpgradeGuard ==
    [][/\ \A k \in DOMAIN log'.upgrade :
            IF CanBuy(log'.upgrade[k].upgrade_type)
            THEN /\ log'.upgrade[k].ret
                 /\ gs'.crystals = gs.crystals
                      - calculate_upgrade_cost(World, log'.upgrade[k].upgrade_type)
                 /\ gs'.upgrade_levels =
                      [gs.upgrade_levels EXCEPT ![log'.upgrade[k].upgrade_type] = @ + 1]
            ELSE /\ ~log'.upgrade[k].ret
                 /\ gs' = gs
       /\ gs'.crystals >= 0
       /\ \A u \in DOMAIN upgrades :
            gs'.upgrade_levels[u] >= 0 /\ gs'.upgrade_levels[u] <= upgrades[u].max_level]_vars

\* a purchase has just spent the last crystal and raised its upgrade to the
\* max level
C20_Witness ==
    /\ log.upgrade # <<>>
    /\ log.upgrade[1].ret
    /\ gs.crystals = 0
    /\ gs.upgrade_levels[log.upgrade[1].upgrade_type]
         = upgrades[log.upgrade[1].upgrade_type].max_level

\* C26: while the finisher stays in LOCK_ON (it is executing) the meter does
\* not decay and the ready flag is not cleared.
C26_NoDecayWhileExecuting ==
    [][(gs.finisher.executing /\ gs.finisher.phase = "lock_on"
        /\ gs'.finisher.phase = "lock_on") =>
          /\ gs'.finisher.meter = gs.finisher.meter
          /\ gs'.finisher.ready = gs.finisher.ready]_vars

\* C27: in every state whose finisher phase is IDLE or POST_IMPACT the time
\* scale is 1.0.
C27_TimeScaleRestored ==
    gs.finisher.phase \in {"idle", "post_impact"} => gs.time_scale = FP

\* the IMPACT phase has just handed over to POST_IMPACT, with the time scale
\* back at 1.0
C27_Witness ==
    /\ gs.finisher.phase = "post_impact"
    /\ gs.finisher.execution_timer = finisher_post_impact_time
    /\ gs.finisher.executing
    /\ gs.time_scale = FP

\* C28: whenever the time scale has the lock-on value the finisher phase is
\* LOCK_ON.
C28_LockOnScaleOnlyInLockOn ==
    gs.time_scale = finisher_lock_on_scale => gs.finisher.phase = "lock_on"

\* C29: an enemy outside the fire band whose cooldown runs out in a frame ends
\* the frame with a fresh cooldown, not with 0.
C29_RerollOutOfBand ==
    [][\A i \in DOMAIN enemies : \A j \in DOMAIN enemies' :
          (/\ enemies'[j].id = enemies[i].id
           /\ enemies[i].fire_cooldown > 0
           /\ ~InFireBand(i))
          => enemies'[j].fire_cooldown > 0]_vars

\* the point x is at least enemy_min_spawn_distance from the ship
FarFromShip(x) ==
    distance_squared(x, ship.x)
      >= (enemy_min_spawn_distance * PX) * (enemy_min_spawn_distance * PX)

\* C30: the enemy that create_enemy() returns is at least
\* enemy_min_spawn_distance from the ship whenever one of the points drawn for
\* its attempts is.
C30_SpawnDistance ==
    (log.draws # <<>> /\ \E k \in DOMAIN log.draws : FarFromShip(log.draws[k]))
      => FarFromShip(enemies[Len(enemies)].x)

\* C21: a check of an unknown or already unlocked achievement returns false
\* and changes nothing, and so does any check that returns false; a check that
\* returns true unlocks an achievement that was locked and credits its reward
\* once; and no step, reset_game included, takes an achievement out of the
\* unlocked set.
C21_UnlockOnce ==
    [][/\ \A k \in DOMAIN log'.achievement :
            LET id == log'.achievement[k].id
                ret == log'.achievement[k].ret
            IN /\ (id \notin DOMAIN achievements \/ id \in gs.achievements_unlocked)
                    => ~ret
               /\ ~ret => gs' = gs
               /\ ret => /\ gs'.achievements_unlocked = gs.achievements_unlocked \cup {id}
                         /\ gs'.crystals = gs.crystals + achievements[id]
                         /\ gs'.lifetime_crystals = gs.lifetime_crystals + achievements[id]
       /\ gs.achievements_unlocked \subseteq gs'.achievements_unlocked]_vars

\* an achievement whose condition still holds was checked again after it had
\* been unlocked and paid: the check returned false
C21_Witness ==
    /\ log.achievement # <<>>
    /\ ~log.achievement[1].ret
    /\ log.achievement[1].id \in gs.achievements_unlocked
    /\ achievement_condition(World, log.achievement[1].id)
    /\ gs.crystals >= achievements[log.achievement[1].id]

\* the elements of a JSON list or dict, without their order
ItemSet(q) == {q[k] : k \in DOMAIN q}

\* two save records with the same high_score, lifetime_crystals, achievement
\* set, upgrade levels and boss_kills
SameRecord(a, b) ==
    /\ a.kind = b.kind
    /\ a.high_score = b.high_score
    /\ a.lifetime_crystals = b.lifetime_crystals
    /\ a.achievements_unlocked.t = b.achievements_unlocked.t
    /\ ItemSet(a.achievements_unlocked.items) = ItemSet(b.achievements_unlocked.items)
    /\ a.upgrade_levels.t = b.upgrade_levels.t
    /\ ItemSet(a.upgrade_levels.items) = ItemSet(b.upgrade_levels.items)
    /\ a.boss_kills = b.boss_kills

\* C22: saving a state, loading the file into a new process and saving again
\* writes the same record as the first save: same high_score,
\* lifetime_crystals, achievement set, upgrade levels and boss_kills.
C22_RoundTrip ==
    \A r1 \in BOOLEAN, r2 \in BOOLEAN :
        SameRecord(save_data(load_game_state(FreshWorld, save_data(gs, r1)).w.gs, r2),
                   save_data(gs, r1))

\* a process that loaded the file a previous run saved, with achievements,
\* upgrades and boss kills in it, and holds the state that file was saved from
C22_Witness ==
    /\ log.persist # <<>>
    /\ log.persist[1].op = "load"
    /\ log.persist[1].ret
    /\ \E r \in BOOLEAN : save_file = save_data(gs, r)
    /\ Cardinality(gs.achievements_unlocked) >= 2
    /\ gs.upgrade_levels.max_speed > 0
    /\ gs.boss_kills > 0
    /\ gs.high_score > 0

\* the persisted fields of a game state
Persisted(g) ==
    [high_score |-> g.high_score, lifetime_crystals |-> g.lifetime_crystals,
     achievements_unlocked |-> g.achievements_unlocked,
     upgrade_levels |-> g.upgrade_levels, boss_kills |-> g.boss_kills]

\* a file load_game_state cannot use: absent or undecodable, a required field
\* missing or of the wrong type, or a conversion that fails
Unusable(d) ==
    \/ d.kind # "object"
    \/ \E f \in {d.high_score, d.lifetime_crystals, d.boss_kills} :
          f.t \notin {"int", "float", "bool"}
    \/ d.achievements_unlocked.t # "list"
    \/ \E k \in DOMAIN d.achievements_unlocked.items :
          d.achievements_unlocked.items[k].t = "list"
    \/ d.upgrade_levels.t # "dict"
    \/ \E k \in DOMAIN d.upgrade_levels.items :
          \/ d.upgrade_levels.items[k].v.t \notin {"int", "float", "bool", "nan"}
          \/ /\ d.upgrade_levels.items[k].v.t = "nan"
             /\ d.upgrade_levels.items[k].k \in DOMAIN upgrades

\* the level of upgrade u in the file, 0 when the file has no such key
FileLevel(d, u) ==
    IF \E k \in DOMAIN d.upgrade_levels.items : d.upgrade_levels.items[k].k = u
    THEN to_int(d.upgrade_levels.items[
            CHOOSE k \in DOMAIN d.upgrade_levels.items : d.upgrade_levels.items[k].k = u].v)
    ELSE 0

\* C23: after load_game_state of a file that is absent, undecodable, lacks a
\* required field, has a field of the wrong type or a value whose conversion
\* fails, the five persisted fields are the complete default record and the
\* call returned false; after the load of any other file the call returned
\* true, the numbers are the file's numbers (not below 0), every upgrade has a
\* level, the file's level clamped into 0..max_level, and the achievements are
\* the known ids of the file.
C23_LoadAllOrNothing ==
    (log.persist # <<>> /\ log.persist[1].op = "load") =>
        IF Unusable(save_file)
        THEN ~log.persist[1].ret /\ Persisted(gs) = default_state
        ELSE /\ log.persist[1].ret
             /\ gs.high_score = Max(0, to_int(save_file.high_score))
             /\ gs.lifetime_crystals = Max(0, to_int(save_file.lifetime_crystals))
             /\ gs.boss_kills = Max(0, to_int(save_file.boss_kills))
             /\ DOMAIN gs.upgrade_levels = DOMAIN upgrades
             /\ \A u \in DOMAIN upgrades :
                   /\ gs.upgrade_levels[u] \in 0..upgrades[u].max_level
                   /\ gs.upgrade_levels[u] =
                        Max(0, Min(FileLevel(save_file, u), upgrades[u].max_level))
             /\ gs.achievements_unlocked \subseteq DOMAIN achievements
             /\ gs.achievements_unlocked =
                    {x.s : x \in {y \in ItemSet(save_file.achievements_unlocked.items) :
                                    y.t = "str" /\ y.s \in DOMAIN achievements}}

\* a file that passes the validation, with a usable high_score, lifetime
\* crystals, achievements and upgrade levels, whose boss_kills cannot be
\* converted: the load failed after four fields had been assigned
C23_Witness ==
    /\ log.persist # <<>>
    /\ log.persist[1].op = "load"
    /\ ~log.persist[1].ret
    /\ validate_save_data(save_file)
    /\ save_file.high_score = J("int", 120)
    /\ save_file.boss_kills.t = "nan"
    /\ ~raises(save_file, "achievements_unlocked")
    /\ ~raises(save_file, "upgrade_levels")

\* the slots named by a list of indices
Slots(q) == {q[k] : k \in DOMAIN q}

\* the calls of get() made so far in a call of create_particles, as the prefix
\* of its returned values shows them: the slots handed out before call k
HandedOut(gets, k) == UNION {gets[j] : j \in 1..(k - 1)}

\* C24: each get() of a call of create_particles either hands out one slot
\* that was inactive, which leaves the inactive list, joins the active list
\* and is marked active, or returns None when no slot is inactive, and then
\* changes nothing; the caller goes on without a particle; the active list
\* never holds more slots than the pool has, and no slot twice.
C24_GetOneOrNone ==
    [][/\ \A k \in DOMAIN log'.gets :
            LET before == Slots(particle_pool.inactive_indices) \ HandedOut(log'.gets, k)
            IN IF before = {}
               THEN log'.gets[k] = {}
               ELSE /\ Cardinality(log'.gets[k]) = 1
                    /\ log'.gets[k] \subseteq before
                    /\ \A i \in log'.gets[k] : particle_pool'.pool[i].active
       /\ log'.gets # <<>> =>
            /\ Slots(particle_pool'.inactive_indices) =
                  Slots(particle_pool.inactive_indices) \ HandedOut(log'.gets, Len(log'.gets) + 1)
            /\ Slots(particle_pool'.active_indices) =
                  Slots(particle_pool.active_indices) \cup HandedOut(log'.gets, Len(log'.gets) + 1)
            /\ Len(particle_pool'.inactive_indices) =
                  Len(particle_pool.inactive_indices)
                    - Cardinality(HandedOut(log'.gets, Len(log'.gets) + 1))
            /\ Len(particle_pool'.active_indices) =
                  Len(particle_pool.active_indices)
                    + Cardinality(HandedOut(log'.gets, Len(log'.gets) + 1))
            /\ (particle_pool.inactive_indices = <<>> => particle_pool' = particle_pool)
       /\ Len(particle_pool'.active_indices) <= PoolSize]_vars

\* a call of create_particles that got the last inactive slot and then None:
\* the pool is full and the second particle was skipped
C24_Witness ==
    /\ Len(log.gets) >= 2
    /\ log.gets[1] # {}
    /\ log.gets[2] = {}
    /\ particle_pool.inactive_indices = <<>>
    /\ Len(particle_pool.active_indices) = PoolSize

\* C25: after the position update of an entity with wrap enabled,
\* 0 <= x < width holds, whatever the velocity, the time_scale and the
\* previous position.
C25_WrapInRange ==
    0 <= entity.x /\ entity.x < screen_width

\* a list of indices without duplicates
NoDuplicates(q) == Cardinality(Slots(q)) = Len(q)

\* the two index lists of a pool are duplicate-free, disjoint and hold every
\* slot between them, and a slot is flagged active iff it is in active_indices
PoolPartition(p) ==
    /\ NoDuplicates(p.active_indices)
    /\ NoDuplicates(p.inactive_indices)
    /\ Slots(p.active_indices) \cap Slots(p.inactive_indices) = {}
    /\ Slots(p.active_indices) \cup Slots(p.inactive_indices) = DOMAIN p.pool
    /\ \A i \in DOMAIN p.pool : p.pool[i].active <=> i \in Slots(p.active_indices)

\* C40: after every call of create_particles (get), update and clear the two
\* index lists are duplicate-free, disjoint and hold every slot exactly once,
\* and a slot's active flag is true iff its index is in active_indices;
\* update() moves to the inactive list exactly the active slots whose life
\* has dropped to 0 or below, and clear() leaves every slot inactive.
C40_PoolPartition ==
    [][/\ PoolPartition(particle_pool')
       /\ log'.calls = <<"ParticlePool.update">> =>
            /\ Slots(particle_pool'.inactive_indices) \ Slots(particle_pool.inactive_indices)
                  = {i \in Slots(particle_pool.active_indices) : particle_pool'.pool[i].life <= 0}
            /\ Slots(particle_pool.inactive_indices)
                  \subseteq Slots(particle_pool'.inactive_indices)
       /\ log'.calls = <<"ParticlePool.clear">> =>
            /\ particle_pool'.active_indices = <<>>
            /\ \A i \in DOMAIN particle_pool'.pool : ~particle_pool'.pool[i].active]_vars

\* an update that returned an expired slot to the inactive list while another
\* particle is still alive: the returned slot is the last of the list, out of
\* the order the pool was built in
C40_Witness ==
    /\ log.calls = <<"ParticlePool.update">>
    /\ particle_pool.active_indices # <<>>
    /\ particle_pool.inactive_indices # <<>>
    /\ particle_pool.inactive_indices[Len(particle_pool.inactive_indices)]
          > Len(particle_pool.inactive_indices) - 1
    /\ particle_pool.pool[particle_pool.inactive_indices[
            Len(particle_pool.inactive_indices)]].life <= 0

\* the bullet pass of the frame hit a boss that was the only asteroid
BossHit ==
    /\ log.bullet_pass
    /\ log.bhits # <<>>
    /\ Len(log.asteroids_before) = 1
    /\ log.asteroids_before[1].is_boss

\* C31: a boss asteroid loses max(1, damage_multiplier) health per bullet hit
\* (ten times the loss is max(10, 10 + 2 * damage level)) and is never split;
\* it is removed only in a frame where its health has reached 0 or less, and
\* then boss_kills has gone up by 1 and the score by boss_score, once.
C31_BossDamage ==
    BossHit =>
      /\ Len(asteroids) <= 1
      /\ asteroids # <<>> =>
            /\ asteroids[1].is_boss
            /\ asteroids[1].health > 0
            /\ 10 * (log.asteroids_before[1].health - asteroids[1].health)
                  = Len(log.bhits) * Max(10, 10 + 2 * gs.upgrade_levels.damage)
            /\ gs.score = log.score_before
            /\ gs.boss_kills = 0
      /\ asteroids = <<>> =>
            /\ 10 * log.asteroids_before[1].health
                  <= Len(log.bhits) * Max(10, 10 + 2 * gs.upgrade_levels.damage)
            /\ gs.score = log.score_before + boss_score
            /\ gs.boss_kills = 1

\* C32: the combo timer decay of a frame runs after the frame's collision
\* step, so a kill resolved in the collision step is seen by the decay of the
\* same frame: the frame ends with the combo timer, which the kill set to the
\* full combo_timeout, already reduced.
C32_KillSeenByDecay ==
    (log.bullet_pass /\ log.combo_after > log.combo_before)
      => gs.combo.timer < combo_timeout * FP

\* C33: in every frame in which the ship is not hit, not reset by a new level
\* and starts no dash, each ship timer that is above 0 goes down and stays at
\* or above 0, whether the ship is respawning, dashing or flying normally and
\* whether or not a level transition is running (the invulnerability timer is
\* looked at outside a dash, which raises it to the dash timer).
C33_TimersDecay ==
    [][(/\ gs'.frame_count = gs.frame_count + 1
        /\ log'.calls = <<>>
        /\ ~(gs.level_transition > 0 /\ gs'.level_transition = 0)
        /\ ship'.dashing <= ship.dashing) =>
          /\ gs.dash_cooldown > 0 =>
                (0 <= gs'.dash_cooldown /\ gs'.dash_cooldown < gs.dash_cooldown)
          /\ ship.shield_active > 0 =>
                (0 <= ship'.shield_active /\ ship'.shield_active < ship.shield_active)
          /\ (ship.invulnerable > 0 /\ ship.dashing = 0) =>
                (0 <= ship'.invulnerable /\ ship'.invulnerable < ship.invulnerable)]_vars

\* C34: while ship.respawning > 0 the ship is inert and protected: the
\* invulnerability timer is above 0, no call of handle_ship_damage is made on
\* a respawning ship, and a frame that starts with the ship respawning starts
\* no dash and no finisher and does not move the ship (unless a new level
\* resets it to the centre).
C34_RespawnInert ==
    [][/\ ship'.respawning > 0 => ship'.invulnerable > 0
       /\ \A i \in DOMAIN log'.calls : log'.calls[i].ship.respawning = 0
       /\ (ship.respawning > 0 /\ gs'.frame_count = gs.frame_count + 1) =>
            /\ ship'.dashing = 0
            /\ ~log'.started
            /\ ship'.x \in {ship.x, Centre}]_vars

\* the asteroids of a list that are bosses
Bosses(q) == {k \in DOMAIN q : q[k].is_boss}

C36_LivesInRange ==
    /\ gs.lives \in 0..ship_max_lives
    /\ gs.game_over <=> gs.lives = 0

\* an asteroid, an enemy or an enemy bullet overlaps the ship: the tests of
\* the three ship collision loops
ShipThreatened ==
    \/ \E i \in DOMAIN asteroids :
          check_collision(ship.x, asteroids[i].x, ship_radius * PX,
                          asteroid_radius(asteroids[i]) + asteroid_collision_margin * PX)
    \/ \E i \in DOMAIN enemies :
          check_collision(ship.x, enemies[i].x, ship_radius * PX, enemies[i].radius)
    \/ \E i \in DOMAIN enemy_bullets :
          check_collision(ship.x, enemy_bullets[i].x, ship_radius * PX,
                          bullet_radius * PX * 2)

\* C37: a frame that ends with the finisher executing ends with the ship
\* invulnerable or dashing, resolved no hit against the ship, took no life and
\* did not set game_over.
C37_FinisherInvulnerable ==
    [][gs'.finisher.executing =>
         /\ ship'.invulnerable > 0 \/ ship'.dashing > 0
         /\ log'.calls = <<>>
         /\ gs'.lives = gs.lives
         /\ ~gs'.game_over]_vars

\* the finisher is executing outside a level transition while an asteroid, an
\* enemy or an enemy bullet overlaps the ship
C37_Witness ==
    /\ gs.finisher.executing
    /\ gs.level_transition = 0
    /\ ShipThreatened
    /\ log.calls = <<>>

\* C38: in a frame that starts with the finisher executing the dash cooldown
\* does not rise, and ship.dashing rises only in the frame in which the
\* finisher leaves LOCK_ON for PRE_IMPACT and starts its own dash.
C38_NoDashDuringFinisher ==
    [][(gs.finisher.executing /\ gs'.frame_count = gs.frame_count + 1) =>
         /\ gs'.dash_cooldown <= gs.dash_cooldown
         /\ ship'.dashing > ship.dashing =>
               (gs.finisher.phase = "lock_on" /\ gs'.finisher.phase = "pre_impact")]_vars

\* C39: every frame ends with high_score >= score.
C39_HighScoreFollows ==
    gs.high_score >= gs.score

====
